---- MODULE Spec2Model ----
(***************************************************************************)
(* Model of the EDI interchange engine of sterling-edi-app: the X12 and    *)
(* EDIFACT parsers (src/src/x12_parser.py, src/src/edifact_parser.py) and  *)
(* the validator (src/src/edi_validator.py), with the transformer          *)
(* (src/src/edi_transformer.py), the processor (src/src/edi_processor.py)  *)
(* and the error handler (src/src/ai_automation.py) that use them.         *)
(*                                                                         *)
(* Text is modelled as a sequence of one-character strings, so that        *)
(* stripping, splitting, searching and slicing are computed the way the    *)
(* Python code computes them.  Python's None is the record None.           *)
(***************************************************************************)
EXTENDS Integers, Naturals, Sequences, FiniteSets, TLC

\* validator: the EDIValidator and the two parsers it holds
\* transformer: the EDITransformer and the two parsers it holds
\* op, arg:   the last call made and its arguments
\* ret, exc:  what that call returned, and the exception it raised
\* calls:     the parser methods that call invoked
\* locals:    the local variables of that call as it returned (the open
\*            group and the open transaction of the X12 builder loop)
VARIABLES validator, transformer, handler, op, arg, ret, exc, calls, locals

vars == <<validator, transformer, handler, op, arg, ret, exc, calls, locals>>

None == [none |-> TRUE]

\* the exc field of a call that returned normally
NoException == "None"

-----------------------------------------------------------------------------
(* Python str primitives over sequences of characters.                     *)

\* Body applied to the value of v: v is evaluated once, as an assignment
\* to a local variable is
Let(v, Body(_)) == CHOOSE r \in {Body(x) : x \in {v}} : TRUE

Whitespace == {" ", "\n", "\t", "\r"}

Rep(c, n) == [i \in 1..n |-> c]

\* s.ljust(n): fixed-width fields of the ISA header are space padded
Pad(s, n) == IF Len(s) >= n THEN s ELSE s \o Rep(" ", n - Len(s))

\* s[:n]
Prefix(s, n) == IF Len(s) <= n THEN s ELSE SubSeq(s, 1, n)

\* s[n:]
Suffix(s, n) == IF Len(s) <= n THEN <<>> ELSE SubSeq(s, n + 1, Len(s))

\* s.strip(): from the first to the last character that is not whitespace
Strip(s) ==
    LET Blank(i, j) == \A k \in i..j : s[k] \in Whitespace
        lo == CHOOSE i \in 1..Len(s) : s[i] \notin Whitespace /\ Blank(1, i - 1)
        hi == CHOOSE i \in 1..Len(s) : s[i] \notin Whitespace /\ Blank(i + 1, Len(s))
    IN IF Blank(1, Len(s)) THEN <<>> ELSE SubSeq(s, lo, hi)

\* s.startswith(p)
StartsWith(s, p) == Len(s) >= Len(p) /\ SubSeq(s, 1, Len(p)) = p

\* s.find(p): 0-based index of the first occurrence, -1 when there is none
Find(s, p) ==
    LET hits == {i \in 0..(Len(s) - Len(p)) : SubSeq(s, i + 1, i + Len(p)) = p}
    IN IF hits = {} THEN -1 ELSE CHOOSE i \in hits : \A j \in hits : i <= j

\* the k-th smallest member of the set of integers P (k from 1)
Kth(P, k) == CHOOSE p \in P : Cardinality({q \in P : q < p}) = k - 1

RECURSIVE Split(_, _)
\* s.split(sep) for a one-character separator: the piece before the first
\* separator, then the pieces of what follows it
Split(s, sep) ==
    IF \A i \in 1..Len(s) : s[i] # sep THEN <<s>>
    ELSE LET cut == CHOOSE i \in 1..Len(s) :
                        s[i] = sep /\ \A j \in 1..(i - 1) : s[j] # sep
         IN <<SubSeq(s, 1, cut - 1)>> \o Split(Suffix(s, cut), sep)

RECURSIVE Join(_, _)
\* sep.join(parts)
Join(parts, sep) ==
    IF parts = <<>> THEN <<>>
    ELSE IF Len(parts) = 1 THEN parts[1]
    ELSE parts[1] \o <<sep>> \o Join(Tail(parts), sep)

-----------------------------------------------------------------------------
(* src/src/x12_parser.py                                                   *)

ISA == <<"I", "S", "A">>
IEA == <<"I", "E", "A">>
GS  == <<"G", "S">>
GE  == <<"G", "E">>
ST  == <<"S", "T">>
SE  == <<"S", "E">>
BEG == <<"B", "E", "G">>
BAK == <<"B", "A", "K">>
BIG == <<"B", "I", "G">>
BSN == <<"B", "S", "N">>
N1  == <<"N", "1">>
PO1 == <<"P", "O", "1">>
IT1 == <<"I", "T", "1">>
T850 == <<"8", "5", "0">>
T855 == <<"8", "5", "5">>
T810 == <<"8", "1", "0">>
T856 == <<"8", "5", "6">>

\* the regular expression of detect_separators: ISA([^*~]{103}) in content[:200]
IsaDataLen == 103
IsaSearchWindow == 200
IsaReleaseIndex == 104

\* X12Segment.get_element: position is 1-indexed
X12_get_element(seg, position, default) ==
    IF 1 <= position /\ position <= Len(seg.elements)
    THEN seg.elements[position]
    ELSE default

\* X12Transaction.get_segments
X12_get_segments(transaction, segment_name) ==
    SelectSeq(transaction.segments, LAMBDA seg : seg.name = segment_name)

\* X12Transaction.get_segment (index = 0)
X12_get_segment(transaction, segment_name) ==
    LET segments == X12_get_segments(transaction, segment_name)
    IN IF segments # <<>> /\ 0 < Len(segments) THEN segments[1] ELSE None

\* X12Envelope.get_sender_id
X12_get_sender_id(envelope) ==
    IF envelope.isa_segment # None
    THEN Strip(X12_get_element(envelope.isa_segment, 6, <<>>))
    ELSE <<>>

\* X12Envelope.get_receiver_id
X12_get_receiver_id(envelope) ==
    IF envelope.isa_segment # None
    THEN Strip(X12_get_element(envelope.isa_segment, 8, <<>>))
    ELSE <<>>

\* X12Parser.__init__ with its default arguments
X12Parser_init ==
    [element_separator |-> "*", segment_separator |-> "~", release_character |-> "?"]

\* re.search(r'ISA([^*~]{103})', window): 0-based start of the leftmost match, -1 if none
IsaSearch(window) ==
    LET hits == {i \in 0..(Len(window) - 3 - IsaDataLen) :
                    /\ SubSeq(window, i + 1, i + 3) = ISA
                    /\ \A k \in 1..IsaDataLen : window[i + 3 + k] \notin {"*", "~"}}
    IN IF hits = {} THEN -1 ELSE CHOOSE i \in hits : \A j \in hits : i <= j

\* detect_separators had it returned the stored pair in the wrong order
\* when the ISA header is not found
X12_detect_separators_swapped(self, content) ==
    LET window == Prefix(content, IsaSearchWindow)
        m == IsaSearch(window)
    IN IF m # -1
       THEN LET isa_data == SubSeq(window, m + 4, m + 3 + IsaDataLen)
                element_sep == IF Len(isa_data) > 0 THEN isa_data[1] ELSE "*"
                segment_pos == Find(content, ISA) + 3 + IsaDataLen
                segment_sep == IF segment_pos < Len(content)
                               THEN content[segment_pos + 1] ELSE "~"
                release ==
                    IF Len(isa_data) > IsaReleaseIndex
                    THEN LET release_char == isa_data[IsaReleaseIndex + 1]
                         IN IF release_char \notin {element_sep, segment_sep}
                            THEN release_char ELSE self.release_character
                    ELSE self.release_character
            IN [self |-> [self EXCEPT !.release_character = release],
                exc |-> NoException,
                ret |-> <<element_sep, segment_sep>>]
       ELSE [self |-> self,
             exc |-> NoException,
             ret |-> <<self.segment_separator, self.element_separator>>]

\* X12Parser.detect_separators: returns the pair and the parser as it leaves it
X12_detect_separators(self, content) ==
    LET window == Prefix(content, IsaSearchWindow)
        m == IsaSearch(window)
    IN IF m # -1
       THEN LET isa_data == SubSeq(window, m + 4, m + 3 + IsaDataLen)
                element_sep == IF Len(isa_data) > 0 THEN isa_data[1] ELSE "*"
                segment_pos == Find(content, ISA) + 3 + IsaDataLen
                segment_sep == IF segment_pos < Len(content)
                               THEN content[segment_pos + 1] ELSE "~"
                release ==
                    IF Len(isa_data) > IsaReleaseIndex
                    THEN LET release_char == isa_data[IsaReleaseIndex + 1]
                         IN IF release_char \notin {element_sep, segment_sep}
                            THEN release_char ELSE self.release_character
                    ELSE self.release_character
            IN [self |-> [self EXCEPT !.release_character = release],
                exc |-> NoException,
                ret |-> <<element_sep, segment_sep>>]
       ELSE [self |-> self,
             exc |-> NoException,
             ret |-> <<self.element_separator, self.segment_separator>>]

\* re.sub(release + "([specials])", r'\1', content): matches are taken left
\* to right and do not overlap, so in a run of release characters that
\* begins at a, the ones at a, a+2, ... that precede a special are dropped
Unescape(s, release, specials) ==
    LET RunStart(i) == CHOOSE a \in 1..i :
                          /\ \A j \in a..i : s[j] = release
                          /\ (a = 1 \/ s[a - 1] # release)
        dropped == {i \in 1..(Len(s) - 1) :
                       /\ s[i] = release
                       /\ s[i + 1] \in specials
                       /\ (i - RunStart(i)) % 2 = 0}
        kept == (1..Len(s)) \ dropped
    IN [k \in 1..Cardinality(kept) |-> s[Kth(kept, k)]]

\* X12Parser._remove_release_characters
X12_remove_release_characters(self, content) ==
    IF self.release_character = "?"
    THEN content
    ELSE Unescape(content, self.release_character,
                  {self.element_separator, self.segment_separator,
                   self.release_character})

RECURSIVE X12_tokenize(_, _, _)
\* X12Parser.parse, the loop over segments_raw
X12_tokenize(segments_raw, element_separator, i) ==
    IF i > Len(segments_raw) THEN <<>>
    ELSE LET seg_raw == Strip(segments_raw[i])
             elements == Split(seg_raw, element_separator)
             rest == X12_tokenize(segments_raw, element_separator, i + 1)
         IN IF seg_raw = <<>> THEN rest
            ELSE <<[name |-> elements[1],
                    elements |-> IF Len(elements) > 1 THEN Tail(elements) ELSE <<>>]>>
                 \o rest

\* the last segment named tag, as the "Find ISA/IEA" loop leaves it
LastNamed(segments, tag) ==
    LET named == SelectSeq(segments, LAMBDA seg : seg.name = tag)
    IN IF named = <<>> THEN None ELSE named[Len(named)]

\* the loop body had it kept the closing SE in the transaction's segments
X12_build_step_keeps_se(b, seg) ==
    IF seg.name = GS
    THEN [b EXCEPT !.current_group =
              [gs_segment |-> seg, ge_segment |-> None, transactions |-> <<>>]]
    ELSE IF seg.name = GE
    THEN IF b.current_group # None
         THEN [b EXCEPT
                 !.envelope.functional_groups =
                     Append(@, [b.current_group EXCEPT !.ge_segment = seg]),
                 !.current_group = None]
         ELSE b
    ELSE IF seg.name = ST
    THEN [b EXCEPT !.current_transaction =
              [transaction_type |-> X12_get_element(seg, 1, <<>>),
               control_number |-> X12_get_element(seg, 2, <<>>),
               segments |-> <<>>]]
    ELSE IF seg.name = SE
    THEN IF b.current_transaction # None
         THEN [b EXCEPT
                 !.envelope.transactions =
                     Append(@, [b.current_transaction EXCEPT
                                  !.segments = Append(@, seg)]),
                 !.current_group =
                     IF b.current_group # None
                     THEN [b.current_group EXCEPT
                              !.transactions = Append(@, b.current_transaction)]
                     ELSE None,
                 !.current_transaction = None]
         ELSE b
    ELSE IF b.current_transaction # None
    THEN [b EXCEPT !.current_transaction.segments = Append(@, seg)]
    ELSE b

\* the loop body had it stored the open transaction when the next ST comes
X12_build_step_st_closes(b, seg) ==
    IF seg.name = GS
    THEN [b EXCEPT !.current_group =
              [gs_segment |-> seg, ge_segment |-> None, transactions |-> <<>>]]
    ELSE IF seg.name = GE
    THEN IF b.current_group # None
         THEN [b EXCEPT
                 !.envelope.functional_groups =
                     Append(@, [b.current_group EXCEPT !.ge_segment = seg]),
                 !.current_group = None]
         ELSE b
    ELSE IF seg.name = ST
    THEN [b EXCEPT !.envelope.transactions =
                       IF b.current_transaction # None
                       THEN Append(@, b.current_transaction) ELSE @,
                   !.current_transaction =
              [transaction_type |-> X12_get_element(seg, 1, <<>>),
               control_number |-> X12_get_element(seg, 2, <<>>),
               segments |-> <<>>]]
    ELSE IF seg.name = SE
    THEN IF b.current_transaction # None
         THEN [b EXCEPT
                 !.envelope.transactions = Append(@, b.current_transaction),
                 !.current_group =
                     IF b.current_group # None
                     THEN [b.current_group EXCEPT
                              !.transactions = Append(@, b.current_transaction)]
                     ELSE None,
                 !.current_transaction = None]
         ELSE b
    ELSE IF b.current_transaction # None
    THEN [b EXCEPT !.current_transaction.segments = Append(@, seg)]
    ELSE b

\* the loop body had it appended the closed transaction to the flat list only
X12_build_step_flat_only(b, seg) ==
    IF seg.name = GS
    THEN [b EXCEPT !.current_group =
              [gs_segment |-> seg, ge_segment |-> None, transactions |-> <<>>]]
    ELSE IF seg.name = GE
    THEN IF b.current_group # None
         THEN [b EXCEPT
                 !.envelope.functional_groups =
                     Append(@, [b.current_group EXCEPT !.ge_segment = seg]),
                 !.current_group = None]
         ELSE b
    ELSE IF seg.name = ST
    THEN [b EXCEPT !.current_transaction =
              [transaction_type |-> X12_get_element(seg, 1, <<>>),
               control_number |-> X12_get_element(seg, 2, <<>>),
               segments |-> <<>>]]
    ELSE IF seg.name = SE
    THEN IF b.current_transaction # None
         THEN [b EXCEPT
                 !.envelope.transactions = Append(@, b.current_transaction),
                 !.current_group =
                     IF b.current_group # None
                     THEN b.current_group
                     ELSE None,
                 !.current_transaction = None]
         ELSE b
    ELSE IF b.current_transaction # None
    THEN [b EXCEPT !.current_transaction.segments = Append(@, seg)]
    ELSE b

\* one iteration of the loop "Parse functional groups and transactions";
\* b holds envelope, current_group and current_transaction
X12_build_step(b, seg) ==
    IF seg.name = GS
    THEN [b EXCEPT !.current_group =
              [gs_segment |-> seg, ge_segment |-> None, transactions |-> <<>>]]
    ELSE IF seg.name = GE
    THEN IF b.current_group # None
         THEN [b EXCEPT
                 !.envelope.functional_groups =
                     Append(@, [b.current_group EXCEPT !.ge_segment = seg]),
                 !.current_group = None]
         ELSE b
    ELSE IF seg.name = ST
    THEN [b EXCEPT !.current_transaction =
              [transaction_type |-> X12_get_element(seg, 1, <<>>),
               control_number |-> X12_get_element(seg, 2, <<>>),
               segments |-> <<>>]]
    ELSE IF seg.name = SE
    THEN IF b.current_transaction # None
         THEN [b EXCEPT
                 !.envelope.transactions = Append(@, b.current_transaction),
                 !.current_group =
                     IF b.current_group # None
                     THEN [b.current_group EXCEPT
                              !.transactions = Append(@, b.current_transaction)]
                     ELSE None,
                 !.current_transaction = None]
         ELSE b
    ELSE IF b.current_transaction # None
    THEN [b EXCEPT !.current_transaction.segments = Append(@, seg)]
    ELSE b

RECURSIVE X12_build(_, _, _)
\* the loop "Parse functional groups and transactions", from segment i on
X12_build(b, segments, i) ==
    IF i > Len(segments) THEN b
    ELSE Let(X12_build_step(b, segments[i]),
             LAMBDA b1 : X12_build(b1, segments, i + 1))

\* X12Parser.parse: exc is the exception raised (None when it returns),
\* ret the envelope, self the parser as parse leaves it, locals the
\* segments list and the current_group and current_transaction the loop
\* ends with
X12_parse(self, content) ==
    IF content = <<>> \/ Strip(content) = <<>>
    THEN [self |-> self, exc |-> "ValueError", ret |-> None, locals |-> None]
    ELSE Let(X12_detect_separators(self, content), LAMBDA d :
         Let([d.self EXCEPT !.element_separator = d.ret[1],
                            !.segment_separator = d.ret[2]], LAMBDA self1 :
         Let(X12_remove_release_characters(self1, content), LAMBDA content1 :
         Let(Split(content1, self1.segment_separator), LAMBDA segments_raw :
         Let(X12_tokenize(segments_raw, self1.element_separator, 1), LAMBDA segments :
         Let(X12_build([envelope |-> [isa_segment |-> LastNamed(segments, ISA),
                                      iea_segment |-> LastNamed(segments, IEA),
                                      functional_groups |-> <<>>,
                                      transactions |-> <<>>],
                        current_group |-> None,
                        current_transaction |-> None], segments, 1), LAMBDA b :
         [self |-> self1, exc |-> NoException, ret |-> b.envelope,
          locals |-> [current_group |-> b.current_group,
                      current_transaction |-> b.current_transaction,
                      segments |-> segments]]))))))

\* _extract_850_data had it filled po_number and po_date with get_element's
\* default when the transaction has no BEG
X12_extract_850_data_with_defaults(transaction) ==
    LET beg == X12_get_segment(transaction, BEG)
        n1_segments == X12_get_segments(transaction, N1)
        po1_segments == X12_get_segments(transaction, PO1)
        parties == [i \in 1..Len(n1_segments) |->
                       [entity_id |-> X12_get_element(n1_segments[i], 1, <<>>),
                        name |-> X12_get_element(n1_segments[i], 2, <<>>)]]
        line_items == [i \in 1..Len(po1_segments) |->
                       [line_number |-> X12_get_element(po1_segments[i], 1, <<>>),
                        quantity |-> X12_get_element(po1_segments[i], 2, <<>>),
                        unit_price |-> X12_get_element(po1_segments[i], 4, <<>>),
                        product_id |-> X12_get_element(po1_segments[i], 7, <<>>)]]
    IN [po_number |-> IF beg # None THEN X12_get_element(beg, 3, <<>>) ELSE <<>>,
        po_date |-> IF beg # None THEN X12_get_element(beg, 5, <<>>) ELSE <<>>,
        po_type |-> IF beg # None THEN X12_get_element(beg, 2, <<>>) ELSE <<>>,
        parties |-> parties,
        line_items |-> line_items]

\* X12Parser._extract_850_data; an absent key of the Python dict is an
\* absent field of the record
X12_extract_850_data(transaction) ==
    LET beg == X12_get_segment(transaction, BEG)
        n1_segments == X12_get_segments(transaction, N1)
        po1_segments == X12_get_segments(transaction, PO1)
        parties == [i \in 1..Len(n1_segments) |->
                       [entity_id |-> X12_get_element(n1_segments[i], 1, <<>>),
                        name |-> X12_get_element(n1_segments[i], 2, <<>>)]]
        line_items == [i \in 1..Len(po1_segments) |->
                       [line_number |-> X12_get_element(po1_segments[i], 1, <<>>),
                        quantity |-> X12_get_element(po1_segments[i], 2, <<>>),
                        unit_price |-> X12_get_element(po1_segments[i], 4, <<>>),
                        product_id |-> X12_get_element(po1_segments[i], 7, <<>>)]]
    IN IF beg # None
       THEN [po_number |-> X12_get_element(beg, 3, <<>>),
             po_date |-> X12_get_element(beg, 5, <<>>),
             po_type |-> X12_get_element(beg, 2, <<>>),
             parties |-> parties,
             line_items |-> line_items]
       ELSE [parties |-> parties, line_items |-> line_items]

\* X12Parser._extract_855_data
X12_extract_855_data(transaction) ==
    LET bak == X12_get_segment(transaction, BAK)
    IN IF bak # None
       THEN [po_number |-> X12_get_element(bak, 3, <<>>),
             ack_date |-> X12_get_element(bak, 4, <<>>),
             ack_type |-> X12_get_element(bak, 2, <<>>)]
       ELSE <<>>

\* X12Parser._extract_810_data
X12_extract_810_data(transaction) ==
    LET big == X12_get_segment(transaction, BIG)
        it1_segments == X12_get_segments(transaction, IT1)
        line_items == [i \in 1..Len(it1_segments) |->
                       [line_number |-> X12_get_element(it1_segments[i], 1, <<>>),
                        quantity |-> X12_get_element(it1_segments[i], 2, <<>>),
                        unit_price |-> X12_get_element(it1_segments[i], 4, <<>>),
                        product_id |-> X12_get_element(it1_segments[i], 7, <<>>)]]
    IN IF big # None
       THEN [invoice_number |-> X12_get_element(big, 2, <<>>),
             invoice_date |-> X12_get_element(big, 3, <<>>),
             po_number |-> X12_get_element(big, 4, <<>>),
             line_items |-> line_items]
       ELSE [line_items |-> line_items]

\* X12Parser._extract_856_data
X12_extract_856_data(transaction) ==
    LET bsn == X12_get_segment(transaction, BSN)
    IN IF bsn # None
       THEN [shipment_id |-> X12_get_element(bsn, 2, <<>>),
             ship_date |-> X12_get_element(bsn, 3, <<>>)]
       ELSE <<>>

\* X12Parser.extract_transaction_data
X12_extract_transaction_data(transaction) ==
    [transaction_type |-> transaction.transaction_type,
     control_number |-> transaction.control_number,
     data |-> IF transaction.transaction_type = T850
              THEN X12_extract_850_data(transaction)
              ELSE IF transaction.transaction_type = T855
              THEN X12_extract_855_data(transaction)
              ELSE IF transaction.transaction_type = T810
              THEN X12_extract_810_data(transaction)
              ELSE IF transaction.transaction_type = T856
              THEN X12_extract_856_data(transaction)
              ELSE <<>>]

-----------------------------------------------------------------------------
(* src/src/edifact_parser.py                                               *)

UNA == <<"U", "N", "A">>
UNB == <<"U", "N", "B">>
UNZ == <<"U", "N", "Z">>
UNH == <<"U", "N", "H">>
UNT == <<"U", "N", "T">>
BGM == <<"B", "G", "M">>
DTM == <<"D", "T", "M">>
NAD == <<"N", "A", "D">>
LIN == <<"L", "I", "N">>
ORDERS == <<"O", "R", "D", "E", "R", "S">>
DESADV == <<"D", "E", "S", "A", "D", "V">>
INVOIC == <<"I", "N", "V", "O", "I", "C">>

\* what element[component] raises when component < -len(element)
IndexError == <<"<IndexError>">>

\* EdifactSegment.get_element; every element is a list, so the branch
\* "component < len(element)" decides, and a negative component indexes
\* from the end as Python lists do
EDIFACT_get_element(seg, position, component, default) ==
    IF 1 <= position /\ position <= Len(seg.elements)
    THEN LET element == seg.elements[position]
         IN IF component < Len(element)
            THEN IF component >= 0 THEN element[component + 1]
                 ELSE IF -component <= Len(element)
                 THEN element[Len(element) + component + 1]
                 ELSE IndexError
            ELSE default
    ELSE default

\* EdifactMessage.get_segments
EDIFACT_get_segments(message, tag) ==
    SelectSeq(message.segments, LAMBDA seg : seg.tag = tag)

\* EdifactMessage.get_segment (index = 0)
EDIFACT_get_segment(message, tag) ==
    LET segments == EDIFACT_get_segments(message, tag)
    IN IF segments # <<>> /\ 0 < Len(segments) THEN segments[1] ELSE None

\* EdifactEnvelope.get_sender_id
EDIFACT_get_sender_id(envelope) ==
    IF envelope.unb_segment # None
    THEN EDIFACT_get_element(envelope.unb_segment, 2, 0, <<>>)
    ELSE <<>>

\* EdifactEnvelope.get_receiver_id
EDIFACT_get_receiver_id(envelope) ==
    IF envelope.unb_segment # None
    THEN EDIFACT_get_element(envelope.unb_segment, 3, 0, <<>>)
    ELSE <<>>

\* EdifactParser.__init__ with its default arguments
EdifactParser_init ==
    [element_separator |-> "+", component_separator |-> ":",
     segment_separator |-> "'", release_character |-> "?"]

\* the pattern of detect_separators: the adjacent literals r'UNA([^' and
\* ']{6})' are one string, UNA([^]{6})
UnaSearchPattern ==
    <<"U", "N", "A", "(", "[", "^", "]", "{", "6", "}", ")">>

\* re.escape of one character, for the separators in use here
ReEscape(c) ==
    IF c \in {"+", "*", "?", ".", "^", "$", "|", "(", ")", "[", "]", "{", "}", "\\",
              " ", "\n", "\t", "\r", "~", "-", "#", "&"}
    THEN <<"\\", c>> ELSE <<c>>

\* the pattern of parse that drops the service string advice:
\* r'^UNA[^' ']*' + re.escape(segment_separator)
UnaRemovePattern(segment_separator) ==
    <<"^", "U", "N", "A", "[", "^", "]", "*">> \o ReEscape(segment_separator)

RECURSIVE ReCompiles(_, _)
\* Python's re parser on character sets: after "[" or "[^" a leading "]"
\* is a member of the set, and the set runs to the next unescaped "]";
\* a pattern that ends inside a set is rejected with re.error
\* ("unterminated character set")
ReCompiles(pattern, i) ==
    IF i > Len(pattern) THEN TRUE
    ELSE IF pattern[i] = "\\" THEN ReCompiles(pattern, i + 2)
    ELSE IF pattern[i] = "["
    THEN LET first == IF i + 1 <= Len(pattern) /\ pattern[i + 1] = "^"
                      THEN i + 2 ELSE i + 1
             closes == {j \in (first + 1)..Len(pattern) :
                           pattern[j] = "]" /\ pattern[j - 1] # "\\"}
         IN IF closes = {} THEN FALSE
            ELSE ReCompiles(pattern,
                            (CHOOSE j \in closes : \A k \in closes : j <= k) + 1)
    ELSE ReCompiles(pattern, i + 1)

\* a match of "UNA" and six further characters in the window; only
\* consulted when the pattern compiles
UnaSearch(window) ==
    LET hits == {i \in 0..(Len(window) - 9) : SubSeq(window, i + 1, i + 3) = UNA}
    IN IF hits = {} THEN -1 ELSE CHOOSE i \in hits : \A j \in hits : i <= j

\* EdifactParser.detect_separators: re.search compiles the pattern first
EDIFACT_detect_separators(self, content) ==
    IF ~ReCompiles(UnaSearchPattern, 1)
    THEN [self |-> self, exc |-> "re.error", ret |-> None]
    ELSE LET window == Prefix(content, 20)
             m == UnaSearch(window)
             self1 == IF m # -1
                      THEN LET una_data == SubSeq(window, m + 4, m + 9)
                           IN [component_separator |-> una_data[1],
                               element_separator |-> una_data[5],
                               segment_separator |-> una_data[6],
                               release_character |-> una_data[4]]
                      ELSE self
         IN [self |-> self1, exc |-> NoException,
             ret |-> <<self1.element_separator, self1.component_separator,
                       self1.segment_separator, self1.release_character>>]

\* EdifactParser._remove_release_characters
EDIFACT_remove_release_characters(self, content) ==
    Unescape(content, self.release_character,
             {self.element_separator, self.component_separator,
              self.segment_separator, self.release_character})

\* one element part of a segment: composite when it holds the component separator
EDIFACT_element(elem_part, component_separator) ==
    IF \E i \in 1..Len(elem_part) : elem_part[i] = component_separator
    THEN Split(elem_part, component_separator)
    ELSE <<elem_part>>

RECURSIVE EDIFACT_tokenize(_, _, _)
\* EdifactParser.parse, the loop over segments_raw
EDIFACT_tokenize(segments_raw, self, i) ==
    IF i > Len(segments_raw) THEN <<>>
    ELSE LET seg_raw == Strip(segments_raw[i])
             seg_data == Suffix(seg_raw, 3)
             element_parts == Split(seg_data, self.element_separator)
             elements == IF seg_data # <<>>
                         THEN [k \in 1..Len(element_parts) |->
                                  EDIFACT_element(element_parts[k],
                                                  self.component_separator)]
                         ELSE <<>>
             rest == EDIFACT_tokenize(segments_raw, self, i + 1)
         IN IF seg_raw = <<>> \/ Len(seg_raw) < 3 THEN rest
            ELSE <<[tag |-> Prefix(seg_raw, 3), elements |-> elements]>> \o rest

\* the last segment tagged tag, as the "Find UNB/UNZ" loop leaves it
LastTagged(segments, tag) ==
    LET tagged == SelectSeq(segments, LAMBDA seg : seg.tag = tag)
    IN IF tagged = <<>> THEN None ELSE tagged[Len(tagged)]

\* one iteration of the loop "Parse messages"
EDIFACT_build_step(b, seg) ==
    IF seg.tag = UNH
    THEN LET message_version == EDIFACT_get_element(seg, 2, 1, <<>>)
         IN [b EXCEPT !.current_message =
                [message_type |-> EDIFACT_get_element(seg, 2, 0, <<>>),
                 message_version |-> IF message_version # <<>>
                                     THEN message_version ELSE <<"D">>,
                 segments |-> <<>>]]
    ELSE IF seg.tag = UNT
    THEN IF b.current_message # None
         THEN [b EXCEPT !.envelope.messages = Append(@, b.current_message),
                        !.current_message = None]
         ELSE b
    ELSE IF b.current_message # None
    THEN [b EXCEPT !.current_message.segments = Append(@, seg)]
    ELSE b

RECURSIVE EDIFACT_build(_, _, _)
\* the loop "Parse messages", from segment i on
EDIFACT_build(b, segments, i) ==
    IF i > Len(segments) THEN b
    ELSE Let(EDIFACT_build_step(b, segments[i]),
             LAMBDA b1 : EDIFACT_build(b1, segments, i + 1))

\* re.sub(r'^UNA[^...]*' + sep, '', content) once the pattern compiles: a
\* leading UNA up to the last segment separator the set lets it reach
EDIFACT_strip_una(content, segment_separator) ==
    LET ends == {j \in 4..Len(content) : content[j] = segment_separator}
    IN IF StartsWith(content, UNA) /\ ends # {}
       THEN Suffix(content, CHOOSE j \in ends : \A k \in ends : j >= k)
       ELSE content

\* EdifactParser.parse, from "Remove release characters" on
EDIFACT_parse_segments(self1, content0) ==
    Let(EDIFACT_remove_release_characters(self1, content0), LAMBDA content1 :
    Let(Split(content1, self1.segment_separator), LAMBDA segments_raw :
    Let(EDIFACT_tokenize(segments_raw, self1, 1), LAMBDA segments :
    Let(EDIFACT_build([envelope |-> [unb_segment |-> LastTagged(segments, UNB),
                                     unz_segment |-> LastTagged(segments, UNZ),
                                     messages |-> <<>>],
                       current_message |-> None], segments, 1), LAMBDA b :
    [self |-> self1, exc |-> NoException, ret |-> b.envelope]))))

\* EdifactParser.parse
EDIFACT_parse(self, content) ==
    IF content = <<>> \/ Strip(content) = <<>>
    THEN [self |-> self, exc |-> "ValueError", ret |-> None]
    ELSE Let(EDIFACT_detect_separators(self, content), LAMBDA d :
             IF d.exc # NoException
             THEN [self |-> d.self, exc |-> d.exc, ret |-> None]
             ELSE IF ~ReCompiles(UnaRemovePattern(d.self.segment_separator), 1)
             THEN [self |-> d.self, exc |-> "re.error", ret |-> None]
             ELSE EDIFACT_parse_segments(
                      d.self, EDIFACT_strip_una(content, d.self.segment_separator)))

\* the DTM segments of a message as (qualifier, value) pairs in order
EDIFACT_dates(message) ==
    LET dtm_segments == EDIFACT_get_segments(message, DTM)
    IN [i \in 1..Len(dtm_segments) |->
           <<EDIFACT_get_element(dtm_segments[i], 1, 0, <<>>),
             EDIFACT_get_element(dtm_segments[i], 1, 1, <<>>)>>]

\* the LIN segments of a message as line items
EDIFACT_line_items(message) ==
    LET lin_segments == EDIFACT_get_segments(message, LIN)
    IN [i \in 1..Len(lin_segments) |->
           [line_number |-> EDIFACT_get_element(lin_segments[i], 1, 0, <<>>),
            product_id |-> EDIFACT_get_element(lin_segments[i], 3, 0, <<>>)]]

\* EdifactParser._extract_orders_data
EDIFACT_extract_orders_data(message) ==
    LET bgm == EDIFACT_get_segment(message, BGM)
        nad_segments == EDIFACT_get_segments(message, NAD)
        parties == [i \in 1..Len(nad_segments) |->
                       [qualifier |-> EDIFACT_get_element(nad_segments[i], 1, 0, <<>>),
                        id |-> EDIFACT_get_element(nad_segments[i], 2, 0, <<>>),
                        name |-> EDIFACT_get_element(nad_segments[i], 3, 0, <<>>)]]
    IN IF bgm # None
       THEN [order_number |-> EDIFACT_get_element(bgm, 2, 0, <<>>),
             order_type |-> EDIFACT_get_element(bgm, 1, 0, <<>>),
             order_date |-> EDIFACT_get_element(bgm, 4, 0, <<>>),
             dates |-> EDIFACT_dates(message),
             parties |-> parties,
             line_items |-> EDIFACT_line_items(message)]
       ELSE [dates |-> EDIFACT_dates(message),
             parties |-> parties,
             line_items |-> EDIFACT_line_items(message)]

\* EdifactParser._extract_desadv_data
EDIFACT_extract_desadv_data(message) ==
    LET bgm == EDIFACT_get_segment(message, BGM)
    IN IF bgm # None
       THEN [despatch_number |-> EDIFACT_get_element(bgm, 2, 0, <<>>),
             despatch_type |-> EDIFACT_get_element(bgm, 1, 0, <<>>),
             dates |-> EDIFACT_dates(message)]
       ELSE [dates |-> EDIFACT_dates(message)]

\* EdifactParser._extract_invoic_data
EDIFACT_extract_invoic_data(message) ==
    LET bgm == EDIFACT_get_segment(message, BGM)
    IN IF bgm # None
       THEN [invoice_number |-> EDIFACT_get_element(bgm, 2, 0, <<>>),
             invoice_type |-> EDIFACT_get_element(bgm, 1, 0, <<>>),
             invoice_date |-> EDIFACT_get_element(bgm, 4, 0, <<>>),
             dates |-> EDIFACT_dates(message),
             line_items |-> EDIFACT_line_items(message)]
       ELSE [dates |-> EDIFACT_dates(message),
             line_items |-> EDIFACT_line_items(message)]

\* EdifactParser.extract_message_data
EDIFACT_extract_message_data(message) ==
    [message_type |-> message.message_type,
     message_version |-> message.message_version,
     data |-> IF message.message_type = ORDERS
              THEN EDIFACT_extract_orders_data(message)
              ELSE IF message.message_type = DESADV
              THEN EDIFACT_extract_desadv_data(message)
              ELSE IF message.message_type = INVOIC
              THEN EDIFACT_extract_invoic_data(message)
              ELSE <<>>]

-----------------------------------------------------------------------------
(* src/src/edi_validator.py                                                *)

\* ValidationResult(is_valid=True)
ValidationResult_new == [is_valid |-> TRUE, errors |-> <<>>, warnings |-> <<>>]

\* add_error without its last statement, self.is_valid = False
add_error_keeps_validity(result, message, segment, rule) ==
    [result EXCEPT
        !.errors = Append(@, [level |-> "ERROR", message |-> message,
                              segment |-> segment, position |-> "None",
                              rule |-> rule])]

\* ValidationResult.add_error
add_error(result, message, segment, rule) ==
    [result EXCEPT
        !.errors = Append(@, [level |-> "ERROR", message |-> message,
                              segment |-> segment, position |-> "None",
                              rule |-> rule]),
        !.is_valid = FALSE]

\* ValidationResult.add_warning
add_warning(result, message, segment, rule) ==
    [result EXCEPT
        !.warnings = Append(@, [level |-> "WARNING", message |-> message,
                                segment |-> segment, position |-> "None",
                                rule |-> rule])]

\* EDIValidator.__init__
EDIValidator_init ==
    [x12_parser |-> X12Parser_init, edifact_parser |-> EdifactParser_init]

\* EDITransformer.__init__
EDITransformer_init ==
    [x12_parser |-> X12Parser_init, edifact_parser |-> EdifactParser_init]

\* EDIFileHandler.__init__ (src/src/file_monitor.py) with the default
\* file_extensions; timers are the threading.Timer objects started so far
EDIFileHandler_init ==
    [file_extensions |-> {<<".", "e", "d", "i">>, <<".", "x", "1", "2">>,
                          <<".", "e", "d", "i", "f", "a", "c", "t">>,
                          <<".", "t", "x", "t">>},
     processing_files |-> {},
     file_timers |-> <<>>,
     timers |-> <<>>]

\* _detect_edi_type falling back to "X12" instead of "UNKNOWN"
detect_edi_type_defaults_to_x12(content) ==
    LET content_stripped == Strip(content)
    IN IF StartsWith(content_stripped, UNB) \/ StartsWith(content_stripped, UNA)
       THEN "EDIFACT"
       ELSE "X12"

\* EDIValidator._detect_edi_type
detect_edi_type(content) ==
    LET content_stripped == Strip(content)
    IN IF StartsWith(content_stripped, ISA) THEN "X12"
       ELSE IF StartsWith(content_stripped, UNB) \/ StartsWith(content_stripped, UNA)
       THEN "EDIFACT"
       ELSE "UNKNOWN"

Digits == {"0", "1", "2", "3", "4", "5", "6", "7", "8", "9"}

DigitValue(c) ==
    CASE c = "0" -> 0 [] c = "1" -> 1 [] c = "2" -> 2 [] c = "3" -> 3 [] c = "4" -> 4
      [] c = "5" -> 5 [] c = "6" -> 6 [] c = "7" -> 7 [] c = "8" -> 8 [] c = "9" -> 9

RECURSIVE DecimalValue(_)
DecimalValue(digits) ==
    IF digits = <<>> THEN 0
    ELSE 10 * DecimalValue(SubSeq(digits, 1, Len(digits) - 1))
         + DigitValue(digits[Len(digits)])

\* int(text): surrounding whitespace and one sign are accepted, anything
\* else than decimal digits raises ValueError
PyInt(text) ==
    LET t == Strip(text)
        signed == t # <<>> /\ t[1] \in {"+", "-"}
        digits == IF signed THEN Tail(t) ELSE t
    IN IF digits # <<>> /\ \A i \in 1..Len(digits) : digits[i] \in Digits
       THEN [exc |-> NoException,
             ret |-> IF signed /\ t[1] = "-" THEN -DecimalValue(digits)
                     ELSE DecimalValue(digits)]
       ELSE [exc |-> "ValueError", ret |-> None]

\* EDIValidator._validate_850
validate_850(transaction, result) ==
    LET beg == X12_get_segment(transaction, BEG)
        r1 == IF beg = None
              THEN add_error(result, "850 transaction missing BEG segment",
                             "None", "BEG_REQUIRED_850")
              ELSE IF X12_get_element(beg, 3, <<>>) = <<>>
              THEN add_error(result, "BEG segment missing purchase order number",
                             "BEG", "None")
              ELSE result
    IN IF X12_get_segments(transaction, PO1) = <<>>
       THEN add_warning(r1, "850 transaction has no line items (PO1 segments)",
                        "None", "None")
       ELSE r1

\* EDIValidator._validate_855
validate_855(transaction, result) ==
    IF X12_get_segment(transaction, BAK) = None
    THEN add_error(result, "855 transaction missing BAK segment",
                   "None", "BAK_REQUIRED_855")
    ELSE result

\* EDIValidator._validate_810
validate_810(transaction, result) ==
    LET big == X12_get_segment(transaction, BIG)
    IN IF big = None
       THEN add_error(result, "810 transaction missing BIG segment",
                      "None", "BIG_REQUIRED_810")
       ELSE IF X12_get_element(big, 2, <<>>) = <<>>
       THEN add_error(result, "BIG segment missing invoice number", "BIG", "None")
       ELSE result

\* EDIValidator._validate_x12_transaction: the result as the method leaves
\* it, and the exception int() may raise out of it
validate_x12_transaction(transaction, result) ==
    LET st_segment == X12_get_segment(transaction, ST)
        se_segment == X12_get_segment(transaction, SE)
        r1 == IF st_segment = None
              THEN add_error(result, "Transaction missing ST segment",
                             "None", "ST_SE_REQUIRED")
              ELSE IF X12_get_element(st_segment, 1, <<>>) # transaction.transaction_type
              THEN add_error(result, "Transaction type mismatch", "ST", "None")
              ELSE result
        expected_count == X12_get_element(se_segment, 1, <<>>)
        actual_count == Len(transaction.segments)
        count == PyInt(expected_count)
        raises == se_segment # None /\ expected_count # <<>>
                  /\ count.exc # NoException
        r2 == IF se_segment = None
              THEN add_error(r1, "Transaction missing SE segment",
                             "None", "ST_SE_REQUIRED")
              ELSE IF expected_count # <<>> /\ ~raises /\ count.ret # actual_count
              THEN add_warning(r1, "Segment count mismatch", "SE", "None")
              ELSE r1
        r3 == IF transaction.transaction_type = T850 THEN validate_850(transaction, r2)
              ELSE IF transaction.transaction_type = T855 THEN validate_855(transaction, r2)
              ELSE IF transaction.transaction_type = T810 THEN validate_810(transaction, r2)
              ELSE r2
    IN IF raises THEN [result |-> r1, exc |-> count.exc]
       ELSE [result |-> r3, exc |-> NoException]

RECURSIVE validate_x12_transactions(_, _, _)
\* the loop "for transaction in envelope.transactions"
validate_x12_transactions(transactions, result, i) ==
    IF i > Len(transactions) THEN [result |-> result, exc |-> NoException]
    ELSE Let(validate_x12_transaction(transactions[i], result), LAMBDA v :
             IF v.exc # NoException THEN v
             ELSE validate_x12_transactions(transactions, v.result, i + 1))

RECURSIVE validate_x12_groups(_, _, _)
\* the loop "for group in envelope.functional_groups"
validate_x12_groups(groups, result, i) ==
    IF i > Len(groups) THEN result
    ELSE LET r1 == IF groups[i].gs_segment = None
                   THEN add_error(result, "Functional group missing GS segment",
                                  "None", "None")
                   ELSE result
             r2 == IF groups[i].ge_segment = None
                   THEN add_warning(r1, "Functional group missing GE segment",
                                    "None", "None")
                   ELSE r1
         IN Let(r2, LAMBDA r : validate_x12_groups(groups, r, i + 1))

\* _validate_x12 had it returned at the first error, before the transactions
validate_x12_envelope_stops(envelope) ==
    LET isa == envelope.isa_segment
        r0 == ValidationResult_new
        r1 == IF isa = None
              THEN add_error(r0, "Missing ISA segment (interchange header)",
                             "None", "None")
              ELSE LET a == IF Len(isa.elements) < 16
                            THEN add_error(r0, "ISA segment has insufficient elements (expected 16)",
                                           "ISA", "None")
                            ELSE r0
                       b == IF Strip(X12_get_element(isa, 6, <<>>)) = <<>>
                            THEN add_error(a, "Missing sender ID in ISA segment",
                                           "ISA", "None")
                            ELSE a
                   IN IF Strip(X12_get_element(isa, 8, <<>>)) = <<>>
                      THEN add_error(b, "Missing receiver ID in ISA segment",
                                     "ISA", "None")
                      ELSE b
        r2 == IF envelope.iea_segment = None
              THEN add_warning(r1, "Missing IEA segment (interchange trailer)",
                               "None", "None")
              ELSE r1
        r3 == IF envelope.functional_groups = <<>>
              THEN add_warning(r2, "No functional groups found", "None", "None")
              ELSE validate_x12_groups(envelope.functional_groups, r2, 1)
    IN IF envelope.transactions = <<>>
       THEN [result |-> add_warning(r3, "No transactions found", "None", "None"),
             exc |-> NoException]
       ELSE IF r3.errors # <<>> THEN [result |-> r3, exc |-> NoException]
       ELSE Let(r3, LAMBDA r : validate_x12_transactions(envelope.transactions, r, 1))

\* EDIValidator._validate_x12, the checks made once parse has returned
validate_x12_envelope(envelope) ==
    LET isa == envelope.isa_segment
        r0 == ValidationResult_new
        r1 == IF isa = None
              THEN add_error(r0, "Missing ISA segment (interchange header)",
                             "None", "None")
              ELSE LET a == IF Len(isa.elements) < 16
                            THEN add_error(r0, "ISA segment has insufficient elements (expected 16)",
                                           "ISA", "None")
                            ELSE r0
                       b == IF Strip(X12_get_element(isa, 6, <<>>)) = <<>>
                            THEN add_error(a, "Missing sender ID in ISA segment",
                                           "ISA", "None")
                            ELSE a
                   IN IF Strip(X12_get_element(isa, 8, <<>>)) = <<>>
                      THEN add_error(b, "Missing receiver ID in ISA segment",
                                     "ISA", "None")
                      ELSE b
        r2 == IF envelope.iea_segment = None
              THEN add_warning(r1, "Missing IEA segment (interchange trailer)",
                               "None", "None")
              ELSE r1
        r3 == IF envelope.functional_groups = <<>>
              THEN add_warning(r2, "No functional groups found", "None", "None")
              ELSE validate_x12_groups(envelope.functional_groups, r2, 1)
    IN IF envelope.transactions = <<>>
       THEN [result |-> add_warning(r3, "No transactions found", "None", "None"),
             exc |-> NoException]
       ELSE Let(r3, LAMBDA r : validate_x12_transactions(envelope.transactions, r, 1))

\* EDIValidator._validate_x12: self is the validator; the returned record
\* holds the validator as the call leaves it, the exception that escapes
\* (None when it returns), the result, and the parser calls made
validate_x12(self, content) ==
    Let(X12_parse(self.x12_parser, content), LAMBDA p :
        IF p.exc # NoException
        THEN [self |-> [self EXCEPT !.x12_parser = p.self], exc |-> NoException,
              ret |-> add_error(ValidationResult_new, "Parse error", "None", "None"),
              calls |-> <<"x12_parser.parse">>]
        ELSE Let(validate_x12_envelope(p.ret), LAMBDA v :
                 [self |-> [self EXCEPT !.x12_parser = p.self], exc |-> v.exc,
                  ret |-> IF v.exc = NoException THEN v.result ELSE None,
                  calls |-> <<"x12_parser.parse">>]))

\* EDIValidator._validate_orders
validate_orders(message, result) ==
    LET bgm == EDIFACT_get_segment(message, BGM)
    IN IF bgm = None
       THEN add_error(result, "ORDERS message missing BGM segment",
                      "None", "BGM_REQUIRED_ORDERS")
       ELSE IF EDIFACT_get_element(bgm, 2, 0, <<>>) = <<>>
       THEN add_warning(result, "BGM segment missing order number", "BGM", "None")
       ELSE result

\* EDIValidator._validate_desadv
validate_desadv(message, result) ==
    IF EDIFACT_get_segment(message, BGM) = None
    THEN add_error(result, "DESADV message missing BGM segment",
                   "None", "BGM_REQUIRED_DESADV")
    ELSE result

\* EDIValidator._validate_invoic
validate_invoic(message, result) ==
    LET bgm == EDIFACT_get_segment(message, BGM)
    IN IF bgm = None
       THEN add_error(result, "INVOIC message missing BGM segment",
                      "None", "BGM_REQUIRED_INVOIC")
       ELSE IF EDIFACT_get_element(bgm, 2, 0, <<>>) = <<>>
       THEN add_error(result, "BGM segment missing invoice number", "BGM", "None")
       ELSE result

\* EDIValidator._validate_edifact_message
validate_edifact_message(message, result) ==
    LET unh_segment == EDIFACT_get_segment(message, UNH)
        unt_segment == EDIFACT_get_segment(message, UNT)
        r1 == IF unh_segment = None
              THEN add_error(result, "Message missing UNH segment",
                             "None", "UNH_UNT_REQUIRED")
              ELSE IF EDIFACT_get_element(unh_segment, 2, 0, <<>>) # message.message_type
              THEN add_error(result, "Message type mismatch", "UNH", "None")
              ELSE result
        expected_count == EDIFACT_get_element(unt_segment, 1, 0, <<>>)
        actual_count == Len(message.segments)
        count == PyInt(expected_count)
        raises == unt_segment # None /\ expected_count # <<>>
                  /\ count.exc # NoException
        r2 == IF unt_segment = None
              THEN add_error(r1, "Message missing UNT segment",
                             "None", "UNH_UNT_REQUIRED")
              ELSE IF expected_count # <<>> /\ ~raises /\ count.ret # actual_count
              THEN add_warning(r1, "Segment count mismatch", "UNT", "None")
              ELSE r1
        r3 == IF message.message_type = ORDERS THEN validate_orders(message, r2)
              ELSE IF message.message_type = DESADV THEN validate_desadv(message, r2)
              ELSE IF message.message_type = INVOIC THEN validate_invoic(message, r2)
              ELSE r2
    IN IF raises THEN [result |-> r1, exc |-> count.exc]
       ELSE [result |-> r3, exc |-> NoException]

RECURSIVE validate_edifact_messages(_, _, _)
\* the loop "for message in envelope.messages"
validate_edifact_messages(messages, result, i) ==
    IF i > Len(messages) THEN [result |-> result, exc |-> NoException]
    ELSE Let(validate_edifact_message(messages[i], result), LAMBDA v :
             IF v.exc # NoException THEN v
             ELSE validate_edifact_messages(messages, v.result, i + 1))

\* EDIValidator._validate_edifact, the checks made once parse has returned
validate_edifact_envelope(envelope) ==
    LET unb == envelope.unb_segment
        r0 == ValidationResult_new
        r1 == IF unb = None
              THEN add_error(r0, "Missing UNB segment (interchange header)",
                             "None", "None")
              ELSE LET a == IF EDIFACT_get_element(unb, 2, 0, <<>>) = <<>>
                            THEN add_error(r0, "Missing sender ID in UNB segment",
                                           "UNB", "None")
                            ELSE r0
                   IN IF EDIFACT_get_element(unb, 3, 0, <<>>) = <<>>
                      THEN add_error(a, "Missing receiver ID in UNB segment",
                                     "UNB", "None")
                      ELSE a
        r2 == IF envelope.unz_segment = None
              THEN add_warning(r1, "Missing UNZ segment (interchange trailer)",
                               "None", "None")
              ELSE r1
    IN IF envelope.messages = <<>>
       THEN [result |-> add_warning(r2, "No messages found", "None", "None"),
             exc |-> NoException]
       ELSE Let(r2, LAMBDA r : validate_edifact_messages(envelope.messages, r, 1))

\* EDIValidator._validate_edifact
validate_edifact(self, content) ==
    Let(EDIFACT_parse(self.edifact_parser, content), LAMBDA p :
        IF p.exc # NoException
        THEN [self |-> [self EXCEPT !.edifact_parser = p.self], exc |-> NoException,
              ret |-> add_error(ValidationResult_new, "Parse error", "None", "None"),
              calls |-> <<"edifact_parser.parse">>]
        ELSE Let(validate_edifact_envelope(p.ret), LAMBDA v :
                 [self |-> [self EXCEPT !.edifact_parser = p.self], exc |-> v.exc,
                  ret |-> IF v.exc = NoException THEN v.result ELSE None,
                  calls |-> <<"edifact_parser.parse">>]))

\* the values the edi_type argument takes: None, the two formats, another name
EdiTypes == {"None", "X12", "EDIFACT", "CSV"}

\* validate testing "not content" only, without "not content.strip()"
validate_without_strip(self, content, edi_type) ==
    IF content = <<>>
    THEN [self |-> self, exc |-> NoException,
          ret |-> add_error(ValidationResult_new, "Empty EDI content", "None", "None"),
          calls |-> <<>>]
    ELSE LET type == IF edi_type = "None" THEN detect_edi_type(content) ELSE edi_type
         IN IF type = "X12" THEN validate_x12(self, content)
            ELSE IF type = "EDIFACT" THEN validate_edifact(self, content)
            ELSE [self |-> self, exc |-> NoException,
                  ret |-> add_error(ValidationResult_new,
                                    "Unknown or unsupported EDI type", "None", "None"),
                  calls |-> <<>>]

\* EDIValidator.validate
validate(self, content, edi_type) ==
    IF content = <<>> \/ Strip(content) = <<>>
    THEN [self |-> self, exc |-> NoException,
          ret |-> add_error(ValidationResult_new, "Empty EDI content", "None", "None"),
          calls |-> <<>>]
    ELSE LET type == IF edi_type = "None" THEN detect_edi_type(content) ELSE edi_type
         IN IF type = "X12" THEN validate_x12(self, content)
            ELSE IF type = "EDIFACT" THEN validate_edifact(self, content)
            ELSE [self |-> self, exc |-> NoException,
                  ret |-> add_error(ValidationResult_new,
                                    "Unknown or unsupported EDI type", "None", "None"),
                  calls |-> <<>>]

-----------------------------------------------------------------------------
(* Input texts.                                                            *)

SENDERID == <<"S", "N", "D">>
RECEIVERID == <<"R", "C", "V">>
PONUMBER == <<"P", "O", "7">>
SKU1 == <<"S", "K", "U">>

\* the fixed-width interchange header: ISA and its 16 elements
IsaElements ==
    <<ISA, Rep("0", 2), Rep(" ", 10), Rep("0", 2), Rep(" ", 10),
      Rep("Z", 2), Pad(SENDERID, 15), Rep("Z", 2), Pad(RECEIVERID, 15),
      Rep("2", 6), Rep("1", 4), <<"U">>, Rep("4", 5), Rep("0", 9),
      <<"0">>, <<"P">>, <<">">> >>

RECURSIVE Terminated(_, _)
\* every segment followed by the segment terminator
Terminated(segs, term) ==
    IF segs = <<>> THEN <<>>
    ELSE Head(segs) \o <<term>> \o Terminated(Tail(segs), term)

\* ISA, GS, ST*850, [BEG], N1, PO1, SE, GE, IEA written with the delimiters es, ss
X12Interchange(es, ss, withBEG) ==
    Terminated(
        <<Join(IsaElements, es),
          Join(<<GS, <<"P", "O">>, SENDERID, RECEIVERID>>, es),
          Join(<<ST, T850, <<"1">> >>, es)>>
        \o (IF withBEG
            THEN <<Join(<<BEG, Rep("0", 2), <<"N", "E">>, PONUMBER, <<>>, Rep("2", 6)>>, es)>>
            ELSE <<>>)
        \o <<Join(<<N1, ST, <<"A", "C">> >>, es),
             Join(<<PO1, <<"1">>, <<"9">>, <<"E", "A">>, <<"5">>, <<>>, <<"V", "P">>, SKU1>>, es),
             Join(<<SE, <<"5">>, <<"1">> >>, es),
             Join(<<GE, <<"1">>, <<"1">> >>, es),
             Join(<<IEA, <<"1">>, Rep("0", 9)>>, es)>>,
        ss)

ScenarioA == X12Interchange("*", "~", TRUE)
ScenarioB == X12Interchange("*", "~", FALSE)
PipeA == X12Interchange("|", "\n", TRUE)

\* UNA:+.? ' UNB UNH+1+ORDERS:D:96A:UN BGM+220+order+9 UNT UNZ, after
\* an optional service string advice
ORDERNO == <<"O", "R", "D", "1">>

EdifactInterchange(withUNA) ==
    (IF withUNA THEN UNA \o <<":", "+", ".", "?", " ", "'">> ELSE <<>>)
    \o Terminated(
        <<Join(<<UNB, <<"U", "N", "O", "A", ":", "2">>, SENDERID, RECEIVERID,
                 <<"2", "5", ":", "1", "2">>, <<"1">> >>, "+"),
          Join(<<UNH, <<"1">>, ORDERS \o <<":", "D", ":", "9", "6", "A", ":", "U", "N">> >>, "+"),
          Join(<<BGM, <<"2", "2", "0">>, ORDERNO, <<"9">> >>, "+"),
          Join(<<UNT, <<"3">>, <<"1">> >>, "+"),
          Join(<<UNZ, <<"1">>, <<"1">> >>, "+")>>,
        "'")

ScenarioD == EdifactInterchange(TRUE)
EdifactNoUna == EdifactInterchange(FALSE)

\* "This is not valid EDI"
NotEdi == <<"n", "o", "t", " ", "E", "D", "I">>

\* a standard interchange that lost its interchange header
NoIsa == Suffix(ScenarioA, 106)

Empty == <<>>
Blank == <<" ", "\n">>

Contents ==
    {ScenarioA, ScenarioB, PipeA, <<" ">> \o ScenarioA, NoIsa,
     ScenarioD, EdifactNoUna, NotEdi, Empty, Blank}

\* the findings add_error and add_warning are called with: message, segment, rule
Findings == {<<"finding", "None", "None">>, <<"finding", "ISA", "RULE">>}

\* the number of add_error and add_warning calls made on one result
MaxFindings == 3

-----------------------------------------------------------------------------
(* The engine as its callers drive it: one validator, whose parsers are    *)
(* also called directly, and validation results built by hand.            *)

Init ==
    /\ validator = EDIValidator_init
    /\ transformer = EDITransformer_init
    /\ handler = EDIFileHandler_init
    /\ op = "init"
    /\ arg = None
    /\ ret = None
    /\ exc = NoException
    /\ calls = <<>>
    /\ locals = None

\* validator.x12_parser.detect_separators(content)
X12DetectSeparators(content) ==
    \E d \in {X12_detect_separators(validator.x12_parser, content)} :
       /\ validator' = [validator EXCEPT !.x12_parser = d.self]
       /\ UNCHANGED <<transformer, handler>>
       /\ op' = "X12Parser.detect_separators"
       /\ arg' = [content |-> content, before |-> validator.x12_parser]
       /\ ret' = d.ret
       /\ exc' = d.exc
       /\ calls' = <<>>
       /\ locals' = None

\* validator.x12_parser.parse(content)
X12Parse(content) ==
    \E p \in {X12_parse(validator.x12_parser, content)} :
       /\ validator' = [validator EXCEPT !.x12_parser = p.self]
       /\ UNCHANGED <<transformer, handler>>
       /\ op' = "X12Parser.parse"
       /\ arg' = [content |-> content, before |-> validator.x12_parser]
       /\ ret' = p.ret
       /\ exc' = p.exc
       /\ calls' = <<>>
       /\ locals' = p.locals

\* validator.x12_parser.extract_transaction_data(transaction), on a
\* transaction of the envelope parse has just returned
X12ExtractTransactionData ==
    /\ op = "X12Parser.parse"
    /\ exc = NoException
    /\ \E i \in 1..Len(ret.transactions) :
          /\ ret' = X12_extract_transaction_data(ret.transactions[i])
          /\ arg' = [content |-> arg.content, before |-> arg.before,
                     transaction |-> ret.transactions[i]]
    /\ op' = "X12Parser.extract_transaction_data"
    /\ exc' = NoException
    /\ calls' = <<>>
    /\ locals' = None
    /\ UNCHANGED <<validator, transformer, handler>>

\* validator.edifact_parser.detect_separators(content)
EdifactDetectSeparators(content) ==
    \E d \in {EDIFACT_detect_separators(validator.edifact_parser, content)} :
       /\ validator' = [validator EXCEPT !.edifact_parser = d.self]
       /\ UNCHANGED <<transformer, handler>>
       /\ op' = "EdifactParser.detect_separators"
       /\ arg' = [content |-> content, before |-> validator.edifact_parser]
       /\ ret' = d.ret
       /\ exc' = d.exc
       /\ calls' = <<>>
       /\ locals' = None

\* validator.edifact_parser.parse(content)
EdifactParse(content) ==
    \E p \in {EDIFACT_parse(validator.edifact_parser, content)} :
       /\ validator' = [validator EXCEPT !.edifact_parser = p.self]
       /\ UNCHANGED <<transformer, handler>>
       /\ op' = "EdifactParser.parse"
       /\ arg' = [content |-> content, before |-> validator.edifact_parser]
       /\ ret' = p.ret
       /\ exc' = p.exc
       /\ calls' = <<>>
       /\ locals' = None

\* validator.validate(content, edi_type)
Validate(content, edi_type) ==
    \E v \in {validate(validator, content, edi_type)} :
       /\ validator' = v.self
       /\ UNCHANGED <<transformer, handler>>
       /\ op' = "EDIValidator.validate"
       /\ arg' = [content |-> content, edi_type |-> edi_type, before |-> validator]
       /\ ret' = v.ret
       /\ exc' = v.exc
       /\ calls' = v.calls
       /\ locals' = None

\* ValidationResult(is_valid=True)
NewResult ==
    /\ op' = "ValidationResult"
    /\ arg' = None
    /\ ret' = ValidationResult_new
    /\ exc' = NoException
    /\ calls' = <<>>
    /\ locals' = None
    /\ UNCHANGED <<validator, transformer, handler>>

\* the operations whose return value is a hand-built ValidationResult
ResultOps == {"ValidationResult", "ValidationResult.add_error",
              "ValidationResult.add_warning"}

\* result.add_error(message, segment=, rule=) on the result at hand
AddError(finding) ==
    /\ op \in ResultOps
    /\ Len(ret.errors) + Len(ret.warnings) < MaxFindings
    /\ op' = "ValidationResult.add_error"
    /\ arg' = [result |-> ret, finding |-> finding]
    /\ ret' = add_error(ret, finding[1], finding[2], finding[3])
    /\ UNCHANGED <<validator, transformer, handler, exc, calls, locals>>

\* result.add_warning(message, segment=, rule=) on the result at hand
AddWarning(finding) ==
    /\ op \in ResultOps
    /\ Len(ret.errors) + Len(ret.warnings) < MaxFindings
    /\ op' = "ValidationResult.add_warning"
    /\ arg' = [result |-> ret, finding |-> finding]
    /\ ret' = add_warning(ret, finding[1], finding[2], finding[3])
    /\ UNCHANGED <<validator, transformer, handler, exc, calls, locals>>

Next ==
    \/ \E content \in Contents : X12DetectSeparators(content)
    \/ \E content \in Contents : X12Parse(content)
    \/ X12ExtractTransactionData
    \/ \E content \in Contents : EdifactDetectSeparators(content)
    \/ \E content \in Contents : EdifactParse(content)
    \/ \E content \in Contents, edi_type \in EdiTypes : Validate(content, edi_type)
    \/ NewResult
    \/ \E finding \in Findings : AddError(finding)
    \/ \E finding \in Findings : AddWarning(finding)

Spec == Init /\ [][Next]_vars

-----------------------------------------------------------------------------
(* Segments and transactions handed to the accessors and the extractors.   *)

\* the segments X12Parser.parse tokenizes Scenario A into
X12Segments ==
    LET segments == X12_tokenize(Split(ScenarioA, "~"), "*", 1)
    IN {segments[i] : i \in 1..Len(segments)}

\* the segments EdifactParser.parse tokenizes the text of Scenario D into,
\* with the separators of EdifactParser.__init__
EdifactSegments ==
    LET segments == EDIFACT_tokenize(Split(EdifactNoUna, "'"), EdifactParser_init, 1)
    IN {segments[i] : i \in 1..Len(segments)}

\* positions and component indexes run over -MaxIndex..MaxIndex
MaxIndex == 2

Indexes == -MaxIndex..MaxIndex

\* the default argument of get_element: "" and another string
Defaults == {<<>>, <<"d">>}

\* the body segments a transaction is built from, in this order
BodySegments ==
    <<[name |-> BEG, elements |-> <<Rep("0", 2), <<"N", "E">>, PONUMBER>>],
      [name |-> PO1, elements |-> <<<<"1">>, <<"9">> >>],
      [name |-> BAK, elements |-> <<Rep("0", 2), <<"A", "C">>, PONUMBER>>],
      [name |-> BIG, elements |-> <<Rep("2", 6), <<"I", "7">> >>],
      [name |-> BSN, elements |-> <<Rep("0", 2), <<"S", "7">> >>]>>

\* the members of BodySegments whose index is in keep, in order
Kept(keep) ==
    LET index == [k \in 1..Cardinality(keep) |-> Kth(keep, k)]
    IN [k \in 1..Cardinality(keep) |-> BodySegments[index[k]]]

\* X12Transaction(transaction_type, control_number, segments) for each known
\* type and each choice of body segments
Transactions ==
    {[transaction_type |-> t, control_number |-> <<"1">>, segments |-> Kept(keep)] :
        t \in {T850, T855, T810, T856}, keep \in SUBSET (1..Len(BodySegments))}

\* segment.get_element(position, default) on an X12Segment
X12GetElement(seg, position, default) ==
    /\ op' = "X12Segment.get_element"
    /\ arg' = [segment |-> seg, position |-> position, default |-> default]
    /\ ret' = X12_get_element(seg, position, default)
    /\ exc' = NoException
    /\ calls' = <<>>
    /\ locals' = None
    /\ UNCHANGED <<validator, transformer, handler>>

\* segment.get_element(position, component, default) on an EdifactSegment
EdifactGetElement(seg, position, component, default) ==
    \E r \in {EDIFACT_get_element(seg, position, component, default)} :
       /\ op' = "EdifactSegment.get_element"
       /\ arg' = [segment |-> seg, position |-> position,
                  component |-> component, default |-> default]
       /\ ret' = IF r = IndexError THEN None ELSE r
       /\ exc' = IF r = IndexError THEN "IndexError" ELSE NoException
       /\ calls' = <<>>
       /\ locals' = None
       /\ UNCHANGED <<validator, transformer, handler>>

\* validator.x12_parser.extract_transaction_data(transaction) on a
\* transaction built by the caller
X12ExtractData(transaction) ==
    /\ op' = "X12Parser.extract_transaction_data"
    /\ arg' = [transaction |-> transaction]
    /\ ret' = X12_extract_transaction_data(transaction)
    /\ exc' = NoException
    /\ calls' = <<>>
    /\ locals' = None
    /\ UNCHANGED <<validator, transformer, handler>>

NextData ==
    \/ \E seg \in X12Segments, position \in Indexes, default \in Defaults :
          X12GetElement(seg, position, default)
    \/ \E seg \in EdifactSegments, position \in Indexes, component \in Indexes,
          default \in Defaults :
          EdifactGetElement(seg, position, component, default)
    \/ \E transaction \in Transactions : X12ExtractData(transaction)

SpecData == Init /\ [][NextData]_vars

-----------------------------------------------------------------------------
(* The X12 parser fed streams of segments in any order, one segment more   *)
(* at each call.                                                           *)

\* the segments a stream is made of, as text
StreamSegments ==
    {ISA \o <<"*", "1">>, IEA \o <<"*", "1">>, GS \o <<"*", "P", "O">>,
     GE \o <<"*", "1">>, ST \o <<"*">> \o T850 \o <<"*", "1">>,
     ST \o <<"*">> \o T855 \o <<"*", "2">>, SE \o <<"*", "1">>,
     BEG \o <<"*", "7">>}

\* the number of segments of a stream
MaxSegments == 4

\* validator.x12_parser.parse(content), content being the stream parsed
\* before with one more segment
X12ParseStream(seg) ==
    /\ op \in {"init", "X12Parser.parse"}
    /\ \E stream \in {IF op = "init" THEN <<seg>> ELSE Append(arg.stream, seg)} :
          /\ Len(stream) <= MaxSegments
          /\ \E p \in {X12_parse(validator.x12_parser, Terminated(stream, "~"))} :
                /\ validator' = [validator EXCEPT !.x12_parser = p.self]
                /\ op' = "X12Parser.parse"
                /\ arg' = [content |-> Terminated(stream, "~"),
                           before |-> validator.x12_parser,
                           stream |-> stream]
                /\ ret' = p.ret
                /\ exc' = p.exc
                /\ calls' = <<>>
                /\ locals' = p.locals
                /\ UNCHANGED <<transformer, handler>>

\* validator.validate(content, "X12") on the stream parsed before
ValidateStream ==
    /\ op = "X12Parser.parse"
    /\ "stream" \in DOMAIN arg
    /\ \E v \in {validate(validator, arg.content, "X12")} :
          /\ validator' = v.self
          /\ op' = "EDIValidator.validate"
          /\ arg' = [content |-> arg.content, edi_type |-> "X12",
                     before |-> validator, stream |-> arg.stream]
          /\ ret' = v.ret
          /\ exc' = v.exc
          /\ calls' = v.calls
          /\ locals' = None
          /\ UNCHANGED <<transformer, handler>>

NextStream ==
    \/ \E seg \in StreamSegments : X12ParseStream(seg)
    \/ ValidateStream

SpecStream == Init /\ [][NextStream]_vars

-----------------------------------------------------------------------------
(* The parsers fed texts of any characters, one character more at each     *)
(* X12 call: data, the separators and the release character.               *)

TextCharacters == {"S", "*", "~", "?"}

\* the number of characters of a text
MaxChars == 5

\* validator.x12_parser.parse(content), content being the text parsed
\* before with one more character
X12ParseText(ch) ==
    /\ \/ op = "init"
       \/ op = "X12Parser.parse" /\ "text" \in DOMAIN arg
    /\ \E text \in {IF op = "init" THEN <<ch>> ELSE Append(arg.text, ch)} :
          /\ Len(text) <= MaxChars
          /\ \E p \in {X12_parse(validator.x12_parser, text)} :
                /\ validator' = [validator EXCEPT !.x12_parser = p.self]
                /\ op' = "X12Parser.parse"
                /\ arg' = [content |-> text, before |-> validator.x12_parser,
                           text |-> text]
                /\ ret' = p.ret
                /\ exc' = p.exc
                /\ calls' = <<>>
                /\ locals' = p.locals
                /\ UNCHANGED <<transformer, handler>>

\* validator.edifact_parser.parse(content) on the text parsed before, with
\* ":" and "+" in place of "*" and "'" in place of "~"
EdifactParseText ==
    /\ op = "X12Parser.parse"
    /\ "text" \in DOMAIN arg
    /\ \E text \in {[i \in 1..Len(arg.text) |->
                        IF arg.text[i] = "~" THEN "'"
                        ELSE IF arg.text[i] = "*"
                        THEN (IF i % 2 = 0 THEN "+" ELSE ":")
                        ELSE arg.text[i]]} :
       \E p \in {EDIFACT_parse(validator.edifact_parser, text)} :
          /\ validator' = [validator EXCEPT !.edifact_parser = p.self]
          /\ op' = "EdifactParser.parse"
          /\ arg' = [content |-> text, before |-> validator.edifact_parser,
                     text |-> arg.text]
          /\ ret' = p.ret
          /\ exc' = p.exc
          /\ calls' = <<>>
          /\ locals' = None
          /\ UNCHANGED <<transformer, handler>>

NextText ==
    \/ \E ch \in TextCharacters : X12ParseText(ch)
    \/ EdifactParseText

SpecText == Init /\ [][NextText]_vars

-----------------------------------------------------------------------------
(* src/src/edi_transformer.py                                              *)

QTY == <<"Q", "T", "Y">>

RECURSIVE PyStr(_)
\* str(n) for an integer n >= 0
PyStr(n) ==
    LET digit == <<"0", "1", "2", "3", "4", "5", "6", "7", "8", "9">>
    IN IF n < 10 THEN <<digit[n + 1]>>
       ELSE PyStr(n \div 10) \o <<digit[(n % 10) + 1]>>

\* datetime.now().strftime(...) of a clock reading written YYYYmmddHHMMSS
StrfYmdHMS(now) == now
StrfYmd(now) == SubSeq(now, 1, 8)
Strfymd(now) == SubSeq(now, 3, 8)
StrfHM(now) == SubSeq(now, 9, 12)

\* EDITransformer._convert_x12_transaction_to_edifact
convert_x12_transaction_to_edifact(transaction, message_type, now) ==
    LET unh_elements == <<<<<<"M", "S", "G">> \o StrfYmdHMS(now)>>,
                          <<message_type, <<"D">>, <<"9", "6", "A">>, <<"U", "N">> >> >>
        beg == X12_get_segment(transaction, BEG)
        bgm == IF transaction.transaction_type = T850 /\ beg # None
               THEN <<[tag |-> BGM,
                       elements |-> <<<<<<"2", "2", "0">> >>,
                                      <<X12_get_element(beg, 3, <<>>)>>,
                                      <<<<"9">> >> >>]>>
               ELSE <<>>
        dtm == <<[tag |-> DTM,
                  elements |-> <<<<<<"1", "3", "7">>, StrfYmd(now)>> >>]>>
        n1_segments == X12_get_segments(transaction, N1)
        nad == [i \in 1..Len(n1_segments) |->
                   [tag |-> NAD,
                    elements |-> <<<<X12_get_element(n1_segments[i], 1, <<>>)>>,
                                   <<X12_get_element(n1_segments[i], 2, <<>>)>>,
                                   <<X12_get_element(n1_segments[i], 4, <<>>)>> >>]]
        po1_segments == X12_get_segments(transaction, PO1)
        lin == [k \in 1..(2 * Len(po1_segments)) |->
                   LET po1 == po1_segments[(k + 1) \div 2]
                   IN IF k % 2 = 1
                      THEN [tag |-> LIN,
                            elements |-> <<<<X12_get_element(po1, 1, <<>>)>>,
                                           <<>>,
                                           <<X12_get_element(po1, 7, <<>>)>> >>]
                      ELSE [tag |-> QTY,
                            elements |-> <<<<<<"2", "1">> >>,
                                           <<X12_get_element(po1, 2, <<>>)>> >>]]
        segments == <<[tag |-> UNH, elements |-> unh_elements]>>
                    \o bgm \o dtm \o nad \o lin
        unt == [tag |-> UNT,
                elements |-> <<<<PyStr(Len(segments) + 1)>>, <<unh_elements[1][1]>> >>]
    IN [segments |-> Append(segments, unt), message_type |-> message_type]

\* EDITransformer._format_edifact_segment
format_edifact_segment(tag, elements) ==
    Join(<<tag>> \o [i \in 1..Len(elements) |-> Join(elements[i], ":")], "+")
    \o <<"'">>

\* EDITransformer._build_edifact_envelope
build_edifact_envelope(message_data, x12_envelope, now) ==
    LET sender == X12_get_sender_id(x12_envelope)
        receiver == X12_get_receiver_id(x12_envelope)
        sender_id == IF sender # <<>> THEN sender ELSE <<"S", "E", "N", "D", "E", "R">>
        receiver_id == IF receiver # <<>> THEN receiver
                       ELSE <<"R", "E", "C", "E", "I", "V", "E", "R">>
        unb_elements == <<<<<<"U", "N", "O", "A">>, <<"2">> >>,
                          <<sender_id, <<>> >>,
                          <<receiver_id, <<>> >>,
                          <<Strfymd(now), StrfHM(now)>>,
                          <<<<"0", "0", "0", "1">> >> >>
        unz_elements == <<<<<<"1">> >>, <<<<"0", "0", "0", "1">> >> >>
        lines == <<UNA \o <<":", "+", ".", "?", " ", "'">>,
                   format_edifact_segment(UNB, unb_elements)>>
                 \o [i \in 1..Len(message_data.segments) |->
                        format_edifact_segment(message_data.segments[i].tag,
                                               message_data.segments[i].elements)]
                 \o <<format_edifact_segment(UNZ, unz_elements)>>
    IN Join(lines, "\n")

\* EDITransformer.transform_x12_to_edifact: the exception of parse, or the
\* ValueError of an envelope without transactions, is raised again
transform_x12_to_edifact(self, x12_content, message_type, now) ==
    Let(X12_parse(self.x12_parser, x12_content), LAMBDA p :
    Let([self EXCEPT !.x12_parser = p.self], LAMBDA self1 :
        IF p.exc # NoException
        THEN [self |-> self1, exc |-> p.exc, ret |-> None]
        ELSE IF p.ret.transactions = <<>>
        THEN [self |-> self1, exc |-> "ValueError", ret |-> None]
        ELSE [self |-> self1, exc |-> NoException,
              ret |-> build_edifact_envelope(
                          convert_x12_transaction_to_edifact(
                              p.ret.transactions[1], message_type, now),
                          p.ret, now)]))

\* the readings of the clock: YYYYmmddHHMMSS
Clock == {<<"2", "0", "2", "5", "0", "1", "0", "2", "0", "3", "0", "4", "0", "5">>,
          <<"2", "0", "2", "6", "1", "1", "0", "2", "1", "0", "3", "0", "0", "0">>}

\* transformer.transform_x12_to_edifact(x12_content, message_type)
TransformX12ToEdifact(x12_content, message_type, now) ==
    \E t \in {transform_x12_to_edifact(transformer, x12_content, message_type, now)} :
       /\ transformer' = t.self
       /\ op' = "EDITransformer.transform_x12_to_edifact"
       /\ arg' = [content |-> x12_content, message_type |-> message_type,
                  before |-> transformer]
       /\ ret' = t.ret
       /\ exc' = t.exc
       /\ calls' = <<>>
       /\ locals' = None
       /\ UNCHANGED <<validator, handler>>

-----------------------------------------------------------------------------
(* src/src/edi_processor.py                                                *)

\* the names the module edi_processor binds: its imports and its class
ProcessorNames ==
    {"logging", "Dict", "List", "Optional", "Any", "Path", "X12Parser",
     "EdifactParser", "EDIValidator", "EDITransformer", "SterlingIntegration",
     "AcumaticaConnector", "AcumaticaCRMIntegration", "ECommerceConnector",
     "AIValidator", "AutomatedErrorHandler", "PredictiveAnalytics",
     "SQLServerIntegration", "MetricsCollector", "setup_logger", "time",
     "logger", "EDIProcessor"}

\* the attributes EDIProcessor.__init__ assigns ahead of its last statement
EDIProcessor_attributes(config) ==
    [config |-> config,
     x12_parser |-> X12Parser_init,
     edifact_parser |-> EdifactParser_init,
     validator |-> EDIValidator_init,
     transformer |-> EDITransformer_init]

\* EDIProcessor.__init__: its last statement calls SecurityAudit, and a name
\* the module does not bind raises NameError
EDIProcessor_init(config) ==
    IF "SecurityAudit" \notin ProcessorNames
    THEN [exc |-> "NameError", ret |-> None]
    ELSE [exc |-> NoException, ret |-> EDIProcessor_attributes(config)]

\* EDIProcessor.detect_edi_type: content that starts with no known tag is
\* tried on the parsers, whose exceptions are swallowed
EDIProcessor_detect_edi_type(self, content) ==
    LET content_stripped == Strip(content)
    IN IF StartsWith(content_stripped, ISA)
       THEN [self |-> self, ret |-> "X12"]
       ELSE IF StartsWith(content_stripped, UNB) \/ StartsWith(content_stripped, UNA)
       THEN [self |-> self, ret |-> "EDIFACT"]
       ELSE Let(X12_parse(self.x12_parser, Prefix(content, 500)), LAMBDA x :
            Let([self EXCEPT !.x12_parser = x.self], LAMBDA self1 :
                IF x.exc = NoException
                THEN [self |-> self1, ret |-> "X12"]
                ELSE Let(EDIFACT_parse(self1.edifact_parser, Prefix(content, 500)),
                         LAMBDA e :
                         [self |-> [self1 EXCEPT !.edifact_parser = e.self],
                          ret |-> IF e.exc = NoException THEN "EDIFACT"
                                  ELSE "UNKNOWN"])))

\* ValidationResult.get_summary, its counts
get_summary(validation_result) ==
    [is_valid |-> validation_result.is_valid,
     error_count |-> Len(validation_result.errors),
     warning_count |-> Len(validation_result.warnings)]

\* the parameters of MetricsCollector.record_processing, self apart
RecordProcessingParameters == {"result"}

\* the keywords process_file passes to it as **metrics_data
MetricsDataKeys ==
    {"transaction_type", "status", "processing_time", "file_name",
     "trading_partner", "error_count"}

\* utils.file_utils.safe_move_file on the place a file is in ("pickup",
\* "processed" or "error"): a source that no longer exists is not moved
safe_move_file(file, destination) ==
    IF file = "pickup" THEN destination ELSE file

\* SterlingIntegration.move_to_processed and move_to_error of a file that
\* was dropped in a pickup directory
move_to_processed(file) == safe_move_file(file, "processed")

move_to_error(file) == safe_move_file(file, "error")

\* the handler "except Exception as e" of process_file, which ends with
\* move_to_error
process_file_failed(result, e) ==
    [result EXCEPT !.errors = Append(@, [kind |-> "Processing error", detail |-> e]),
                   !.success = FALSE]

\* process_file from "Move to processed directory" on: success is set when
\* no error was collected, then the metrics are recorded, and a keyword
\* record_processing does not take raises TypeError
process_file_finish(self, result) ==
    LET moved == IF result.errors = <<>> THEN [result EXCEPT !.success = TRUE]
                 ELSE result
        file == IF result.errors = <<>> THEN move_to_processed("pickup")
                ELSE move_to_error("pickup")
    IN IF MetricsDataKeys \subseteq RecordProcessingParameters
       THEN [self |-> self, ret |-> moved, file |-> file]
       ELSE [self |-> self, ret |-> process_file_failed(moved, "TypeError"),
             file |-> move_to_error(file)]

\* process_file from "Validate" on; transaction_type is a local variable the
\* function assigns only further down, so reading it for validate_with_ai
\* raises UnboundLocalError
process_file_validate(self, result, content, edi_type, do_validate) ==
    IF ~do_validate THEN process_file_finish(self, result)
    ELSE Let(validate(self.validator, content, edi_type), LAMBDA v :
         Let([self EXCEPT !.validator = v.self], LAMBDA self1 :
             IF v.exc # NoException
             THEN [self |-> self1, ret |-> process_file_failed(result, v.exc),
                   file |-> move_to_error("pickup")]
             ELSE Let([result EXCEPT !.validation = get_summary(v.ret)], LAMBDA r :
                  IF r.data # None
                  THEN [self |-> self1,
                        ret |-> process_file_failed(r, "UnboundLocalError"),
                        file |-> move_to_error("pickup")]
                  ELSE IF ~v.ret.is_valid
                  THEN process_file_finish(self1,
                           [r EXCEPT !.errors = @ \o
                               [i \in 1..Len(v.ret.errors) |->
                                   [kind |-> "Validation error",
                                    detail |-> v.ret.errors[i].message]]])
                  ELSE process_file_finish(self1, r))))

\* EDIProcessor.process_file(filepath, validate, transform=False,
\* deliver=False) of a processor without Acumatica or SQL Server; content is
\* what the file holds
process_file(self, content, do_validate) ==
    Let(EDIProcessor_detect_edi_type(self, content), LAMBDA d :
       Let([[success |-> FALSE, edi_type |-> None, validation |-> None,
             data |-> None, errors |-> <<>>] EXCEPT !.edi_type = d.ret],
           LAMBDA r0 :
           IF d.ret = "UNKNOWN"
           THEN [self |-> d.self, ret |-> process_file_failed(r0, "ValueError"),
                 file |-> move_to_error("pickup")]
           ELSE IF d.ret = "X12"
           THEN Let(X12_parse(d.self.x12_parser, content), LAMBDA p :
                Let([d.self EXCEPT !.x12_parser = p.self], LAMBDA self1 :
                    IF p.exc # NoException
                    THEN [self |-> self1, ret |-> process_file_failed(r0, p.exc),
                          file |-> move_to_error("pickup")]
                    ELSE process_file_validate(self1,
                             [r0 EXCEPT !.data =
                                 IF p.ret.transactions # <<>>
                                 THEN X12_extract_transaction_data(p.ret.transactions[1])
                                 ELSE None],
                             content, d.ret, do_validate)))
           ELSE Let(EDIFACT_parse(d.self.edifact_parser, content), LAMBDA p :
                Let([d.self EXCEPT !.edifact_parser = p.self], LAMBDA self1 :
                    IF p.exc # NoException
                    THEN [self |-> self1, ret |-> process_file_failed(r0, p.exc),
                          file |-> move_to_error("pickup")]
                    ELSE process_file_validate(self1,
                             [r0 EXCEPT !.data =
                                 IF p.ret.messages # <<>>
                                 THEN EDIFACT_extract_message_data(p.ret.messages[1])
                                 ELSE None],
                             content, d.ret, do_validate)))))

\* the configuration of the integration tests (sterling directories and
\* file-based metrics only), and no configuration at all
TestConfig ==
    [sterling |-> [pickup_directories |-> <<"pickup">>,
                   delivery_directories |-> <<"delivery">>],
     metrics |-> [storage_path |-> "metrics", use_database |-> FALSE]]

Configs == {TestConfig, <<>>}

\* EDIProcessor(config)
NewProcessor(config) ==
    \E i \in {EDIProcessor_init(config)} :
       /\ op' = "EDIProcessor"
       /\ arg' = [config |-> config]
       /\ ret' = i.ret
       /\ exc' = i.exc
       /\ calls' = <<>>
       /\ locals' = None
       /\ UNCHANGED <<validator, transformer, handler>>

\* processor.process_file(filepath, validate) on a file of a pickup
\* directory, for a processor that holds the attributes of __init__ and a
\* security_audit supplied by the caller; locals keeps where the file is
\* when the call returns
ProcessFile(config, content, do_validate) ==
    \E p \in {process_file(EDIProcessor_attributes(config), content, do_validate)} :
       /\ op' = "EDIProcessor.process_file"
       /\ arg' = [config |-> config, content |-> content, validate |-> do_validate]
       /\ ret' = p.ret
       /\ exc' = NoException
       /\ calls' = <<>>
       /\ locals' = [file |-> p.file]
       /\ UNCHANGED <<validator, transformer, handler>>

-----------------------------------------------------------------------------
(* src/src/ai_automation.py, AutomatedErrorHandler                         *)

\* str.lower() on the letters the error messages use
Lower(s) ==
    LET upper == <<"A", "B", "C", "D", "E", "F", "G", "H", "I", "J", "K", "L", "M",
                   "N", "O", "P", "Q", "R", "S", "T", "U", "V", "W", "X", "Y", "Z">>
        lower == <<"a", "b", "c", "d", "e", "f", "g", "h", "i", "j", "k", "l", "m",
                   "n", "o", "p", "q", "r", "s", "t", "u", "v", "w", "x", "y", "z">>
    IN [i \in 1..Len(s) |->
           IF \E k \in 1..26 : upper[k] = s[i]
           THEN lower[CHOOSE k \in 1..26 : upper[k] = s[i]]
           ELSE s[i]]

\* AutomatedErrorHandler.__init__: error_patterns in insertion order
AutomatedErrorHandler_init(max_retries, retry_delay) ==
    [max_retries |-> max_retries,
     retry_delay |-> retry_delay,
     error_patterns |->
        <<[error_type |-> "connection",
           patterns |-> {<<"t", "i", "m", "e", "o", "u", "t">>,
                         <<"c", "o", "n", "n", "e", "c", "t", "i", "o", "n">>,
                         <<"n", "e", "t", "w", "o", "r", "k">>,
                         <<"u", "n", "r", "e", "a", "c", "h", "a", "b", "l", "e">>}],
          [error_type |-> "authentication",
           patterns |-> {<<"u", "n", "a", "u", "t", "h", "o", "r", "i", "z", "e", "d">>,
                         <<"f", "o", "r", "b", "i", "d", "d", "e", "n">>,
                         <<"a", "u", "t", "h">>,
                         <<"l", "o", "g", "i", "n">>}],
          [error_type |-> "validation",
           patterns |-> {<<"i", "n", "v", "a", "l", "i", "d">>,
                         <<"v", "a", "l", "i", "d", "a", "t", "i", "o", "n">>,
                         <<"f", "o", "r", "m", "a", "t">>,
                         <<"p", "a", "r", "s", "e">>}],
          [error_type |-> "server",
           patterns |-> {<<"s", "e", "r", "v", "e", "r", " ", "e", "r", "r", "o", "r">>,
                         <<"5", "0", "0">>,
                         <<"5", "0", "3">>,
                         <<"s", "e", "r", "v", "i", "c", "e", " ", "u", "n", "a", "v",
                           "a", "i", "l", "a", "b", "l", "e">>}]>>]

\* AutomatedErrorHandler.classify_error: the first error type, in the order
\* of error_patterns, one of whose patterns occurs in the lowered message
classify_error(self, error) ==
    LET error_str == Lower(error)
        matching == {k \in 1..Len(self.error_patterns) :
                        \E pattern \in self.error_patterns[k].patterns :
                            Find(error_str, pattern) # -1}
    IN IF matching = {} THEN "unknown"
       ELSE self.error_patterns[CHOOSE k \in matching : \A j \in matching : k <= j].error_type

\* should_retry had it compared the attempt with > instead of >=
should_retry_one_more(self, error, attempt) ==
    IF attempt > self.max_retries THEN FALSE
    ELSE LET error_type == classify_error(self, error)
         IN IF error_type \in {"connection", "server"} THEN TRUE
            ELSE IF error_type \in {"authentication", "validation"} THEN FALSE
            ELSE TRUE

\* AutomatedErrorHandler.should_retry
should_retry(self, error, attempt) ==
    IF attempt >= self.max_retries THEN FALSE
    ELSE LET error_type == classify_error(self, error)
         IN IF error_type \in {"connection", "server"} THEN TRUE
            ELSE IF error_type \in {"authentication", "validation"} THEN FALSE
            ELSE TRUE

\* str(error) of the exceptions handed to the handler
ConnectionTimeout ==
    <<"C", "o", "n", "n", "e", "c", "t", "i", "o", "n", " ", "t", "i", "m", "e", "o", "u", "t">>
Unauthorized == <<"U", "n", "a", "u", "t", "h", "o", "r", "i", "z", "e", "d">>
InvalidFormat == <<"I", "n", "v", "a", "l", "i", "d", " ", "f", "o", "r", "m", "a", "t">>
Http503 == <<"H", "T", "T", "P", " ", "5", "0", "3">>
DiskFull == <<"D", "i", "s", "k", " ", "f", "u", "l", "l">>
LoginTimeout == <<"L", "o", "g", "i", "n", " ", "t", "i", "m", "e", "o", "u", "t">>

ErrorMessages ==
    {ConnectionTimeout, Unauthorized, InvalidFormat, Http503, DiskFull, LoginTimeout}

\* attempt numbers run over -1..MaxAttempt, max_retries over 0..MaxAttempt
MaxAttempt == 4

\* AutomatedErrorHandler(max_retries).classify_error(error)
ClassifyError(max_retries, error) ==
    /\ op' = "AutomatedErrorHandler.classify_error"
    /\ arg' = [handler |-> AutomatedErrorHandler_init(max_retries, 5), error |-> error]
    /\ ret' = classify_error(AutomatedErrorHandler_init(max_retries, 5), error)
    /\ exc' = NoException
    /\ calls' = <<>>
    /\ locals' = None
    /\ UNCHANGED <<validator, transformer, handler>>

\* AutomatedErrorHandler(max_retries).should_retry(error, attempt)
ShouldRetry(max_retries, error, attempt) ==
    /\ op' = "AutomatedErrorHandler.should_retry"
    /\ arg' = [handler |-> AutomatedErrorHandler_init(max_retries, 5),
               error |-> error, attempt |-> attempt]
    /\ ret' = should_retry(AutomatedErrorHandler_init(max_retries, 5), error, attempt)
    /\ exc' = NoException
    /\ calls' = <<>>
    /\ locals' = None
    /\ UNCHANGED <<validator, transformer, handler>>

-----------------------------------------------------------------------------
(* The transformer, the processor and the error handler as the pipeline    *)
(* and its tests call them.                                                *)

NextPipeline ==
    \/ \E content \in Contents, message_type \in {ORDERS, INVOIC}, now \in Clock :
          TransformX12ToEdifact(content, message_type, now)
    \/ \E config \in Configs : NewProcessor(config)
    \/ \E config \in Configs, content \in Contents, do_validate \in BOOLEAN :
          ProcessFile(config, content, do_validate)
    \/ \E max_retries \in {0, 3}, error \in ErrorMessages :
          ClassifyError(max_retries, error)
    \/ \E max_retries \in 0..MaxAttempt, error \in ErrorMessages,
          attempt \in -1..MaxAttempt :
          ShouldRetry(max_retries, error, attempt)

SpecPipeline == Init /\ [][NextPipeline]_vars

-----------------------------------------------------------------------------
(* src/src/edi_transformer.py, apply_mapping.  A Python value is a string  *)
(* [str |-> text], None, or a reference [ref |-> n] to the n-th dictionary *)
(* of the heap; a dictionary is the sequence of its items in insertion     *)
(* order.  Two references to one dictionary see each other's writes.       *)

Str(text) == [str |-> text]

IsDict(value) == "ref" \in DOMAIN value

\* bool(value) of a string or None
Truthy(value) == value # None /\ value # Str(<<>>)

\* key in d
DictHas(d, key) == \E n \in 1..Len(d) : d[n].key = key

\* d.get(key)
DictGet(d, key) ==
    IF DictHas(d, key) THEN d[CHOOSE n \in 1..Len(d) : d[n].key = key].value
    ELSE None

\* d[key] = value: an existing key keeps its place
DictSet(d, key, value) ==
    IF DictHas(d, key)
    THEN [n \in 1..Len(d) |-> IF d[n].key = key THEN [d[n] EXCEPT !.value = value]
                              ELSE d[n]]
    ELSE Append(d, [key |-> key, value |-> value])

RECURSIVE get_nested_value_from(_, _, _, _)
\* EDITransformer._get_nested_value, the loop from keys[i] on
get_nested_value_from(heap, value, keys, i) ==
    IF i > Len(keys) THEN value
    ELSE IF IsDict(value)
    THEN get_nested_value_from(heap, DictGet(heap[value.ref], keys[i]), keys, i + 1)
    ELSE None

\* EDITransformer._get_nested_value
get_nested_value(heap, data, path) ==
    get_nested_value_from(heap, data, Split(path, "."), 1)

RECURSIVE set_nested_value_from(_, _, _, _, _)
\* EDITransformer._set_nested_value, the loop from keys[i] on and the final
\* assignment: the heap as the method leaves it, and TypeError when current
\* is a string or None ("in", indexing or item assignment on it)
set_nested_value_from(heap, current, keys, i, value) ==
    IF ~IsDict(current) THEN [heap |-> heap, exc |-> "TypeError"]
    ELSE IF i = Len(keys)
    THEN [heap |-> [heap EXCEPT ![current.ref] = DictSet(@, keys[i], value)],
          exc |-> NoException]
    ELSE IF ~DictHas(heap[current.ref], keys[i])
    THEN set_nested_value_from(
             Append([heap EXCEPT ![current.ref] =
                        DictSet(@, keys[i], [ref |-> Len(heap) + 1])], <<>>),
             [ref |-> Len(heap) + 1], keys, i + 1, value)
    ELSE set_nested_value_from(heap, DictGet(heap[current.ref], keys[i]),
                               keys, i + 1, value)

\* _set_nested_value had it written the dotted path as one key
set_nested_value_flat(heap, data, path, value) ==
    [heap |-> [heap EXCEPT ![data.ref] = DictSet(@, path, value)],
     exc |-> NoException]

\* EDITransformer._set_nested_value
set_nested_value(heap, data, path, value) ==
    set_nested_value_from(heap, data, Split(path, "."), 1, value)

Upper(s) ==
    LET upper == <<"A", "B", "C", "D", "E", "F", "G", "H", "I", "J", "K", "L", "M",
                   "N", "O", "P", "Q", "R", "S", "T", "U", "V", "W", "X", "Y", "Z">>
        lower == <<"a", "b", "c", "d", "e", "f", "g", "h", "i", "j", "k", "l", "m",
                   "n", "o", "p", "q", "r", "s", "t", "u", "v", "w", "x", "y", "z">>
    IN [i \in 1..Len(s) |->
           IF \E k \in 1..26 : lower[k] = s[i]
           THEN upper[CHOOSE k \in 1..26 : lower[k] = s[i]]
           ELSE s[i]]

RECURSIVE PyRepr(_, _, _)
\* repr(value); a dictionary that is being printed already prints as {...}
PyRepr(heap, value, printing) ==
    IF value = None THEN <<"N", "o", "n", "e">>
    ELSE IF ~IsDict(value) THEN <<"'">> \o value.str \o <<"'">>
    ELSE IF value.ref \in printing THEN <<"{", ".", ".", ".", "}">>
    ELSE LET d == heap[value.ref]
         IN <<"{">>
            \o Join([n \in 1..Len(d) |->
                        <<"'">> \o d[n].key \o <<"'", ":", " ">>
                        \o PyRepr(heap, d[n].value, printing \cup {value.ref})],
                    <<",", " ">>)
            \o <<"}">>

\* str(value)
StrOf(heap, value) ==
    IF IsDict(value) \/ value = None THEN PyRepr(heap, value, {}) ELSE value.str

\* EDITransformer._apply_transform for the transforms that are not "date:..."
apply_transform(heap, value, transform) ==
    IF transform = Str(<<"u", "p", "p", "e", "r", "c", "a", "s", "e">>)
    THEN Str(Upper(StrOf(heap, value)))
    ELSE IF transform = Str(<<"l", "o", "w", "e", "r", "c", "a", "s", "e">>)
    THEN Str(Lower(StrOf(heap, value)))
    ELSE IF transform = Str(<<"t", "r", "i", "m">>)
    THEN Str(Strip(StrOf(heap, value)))
    ELSE value

\* the value apply_mapping writes for one entry of mapping_config
mapped_value(heap, data, mapping) ==
    LET read == IF Truthy(mapping.source)
                THEN get_nested_value(heap, data, mapping.source.str)
                ELSE None
        value == IF read = None THEN mapping.default ELSE read
    IN IF Truthy(mapping.transform)
       THEN apply_transform(heap, value, mapping.transform)
       ELSE value

RECURSIVE apply_mapping_from(_, _, _, _, _)
\* the loop of apply_mapping from the i-th item of mapping_config on
apply_mapping_from(heap, data, result, mapping_config, i) ==
    IF i > Len(mapping_config)
    THEN [heap |-> heap, exc |-> NoException, ret |-> result]
    ELSE Let(set_nested_value(heap, result, mapping_config[i].key,
                              mapped_value(heap, data, mapping_config[i].value)),
             LAMBDA s :
                IF s.exc # NoException
                THEN [heap |-> s.heap, exc |-> s.exc, ret |-> None]
                ELSE apply_mapping_from(s.heap, data, result, mapping_config, i + 1))

\* EDITransformer.apply_mapping: result is a new dictionary; heap is the
\* heap as the call leaves it
apply_mapping(heap, data, mapping_config) ==
    apply_mapping_from(Append(heap, <<>>), data, [ref |-> Len(heap) + 1],
                       mapping_config, 1)

-----------------------------------------------------------------------------
(* Source data and mapping configurations handed to apply_mapping.         *)

\* {"a": "x", "b": " y "} and {"a": {"b": "x"}}
SourceData ==
    {[heap |-> << <<[key |-> <<"a">>, value |-> Str(<<"x">>)],
                    [key |-> <<"b">>, value |-> Str(<<" ", "y", " ">>)]>> >>,
      data |-> [ref |-> 1]],
     [heap |-> << <<[key |-> <<"a">>, value |-> [ref |-> 2]]>>,
                  <<[key |-> <<"b">>, value |-> Str(<<"x">>)]>> >>,
      data |-> [ref |-> 1]]}

TargetPaths == {<<"a">>, <<"a", ".", "b">>, <<"b">>}

\* the {source, transform, default} of an entry
Mappings ==
    {[source |-> Str(<<"a">>), transform |-> None, default |-> None],
     [source |-> Str(<<"a", ".", "b">>),
      transform |-> Str(<<"u", "p", "p", "e", "r", "c", "a", "s", "e">>),
      default |-> None],
     [source |-> Str(<<"c">>), transform |-> None, default |-> Str(<<"d">>)],
     [source |-> Str(<<"b">>), transform |-> Str(<<"t", "r", "i", "m">>),
      default |-> None]}

\* the number of entries of a mapping configuration
MaxEntries == 2

\* transformer.apply_mapping(data, mapping_config), mapping_config being the
\* one of the call before with one more entry
ApplyMapping(source, target, mapping) ==
    /\ \/ op = "init"
       \/ /\ op = "EDITransformer.apply_mapping"
          /\ arg.source = source
          /\ Len(arg.mapping_config) < MaxEntries
          /\ ~DictHas(arg.mapping_config, target)
    /\ \E config \in {Append(IF op = "init" THEN <<>> ELSE arg.mapping_config,
                            [key |-> target, value |-> mapping])} :
       \E m \in {apply_mapping(source.heap, source.data, config)} :
          /\ op' = "EDITransformer.apply_mapping"
          /\ arg' = [source |-> source, mapping_config |-> config]
          /\ ret' = m.ret
          /\ exc' = m.exc
          /\ calls' = <<>>
          /\ locals' = [heap |-> m.heap]
          /\ UNCHANGED <<validator, transformer, handler>>

NextMapping ==
    \E source \in SourceData, target \in TargetPaths, mapping \in Mappings :
        ApplyMapping(source, target, mapping)

SpecMapping == Init /\ [][NextMapping]_vars

-----------------------------------------------------------------------------
(* src/src/file_monitor.py, EDIFileHandler.  The observer thread calls     *)
(* on_created and on_modified one at a time; every threading.Timer runs    *)
(* _process_file in a thread of its own, which the model follows statement *)
(* by statement: a timer is "started" until its delay has passed, then at  *)
(* the line of _process_file it is about to execute, then "done".          *)

\* Path(filepath).suffix: from the last dot of the name, unless the name
\* begins or ends with it
PathSuffix(filepath) ==
    LET dots == {i \in 2..(Len(filepath) - 1) : filepath[i] = "."}
    IN IF dots = {} THEN <<>>
       ELSE SubSeq(filepath, CHOOSE i \in dots : \A j \in dots : j <= i, Len(filepath))

\* EDIFileHandler._should_process
should_process(self, filepath) ==
    IF filepath \in self.processing_files THEN FALSE
    ELSE Lower(PathSuffix(filepath)) \in self.file_extensions
         \/ self.file_extensions = {}

\* threading.Timer(self.stable_delay, self._process_file, args=(filepath,)).start()
start_timer(self, filepath) ==
    [self EXCEPT !.timers = Append(@, [filepath |-> filepath, pc |-> "started"])]

\* timer.cancel(): the function is not called if it has not been yet
cancel_timer(self, t) ==
    IF self.timers[t].pc = "started"
    THEN [self EXCEPT !.timers[t].pc = "cancelled"]
    ELSE self

\* EDIFileHandler.on_created
on_created(self, is_directory, filepath) ==
    IF is_directory THEN self
    ELSE IF should_process(self, filepath) THEN start_timer(self, filepath)
    ELSE self

\* d[key] = value on the dictionary file_timers
TimersSet(file_timers, filepath, t) ==
    [f \in DOMAIN file_timers \cup {filepath} |->
        IF f = filepath THEN t ELSE file_timers[f]]

\* del d[key] on the dictionary file_timers
TimersDel(file_timers, filepath) ==
    [f \in DOMAIN file_timers \ {filepath} |-> file_timers[f]]

\* EDIFileHandler.on_modified
on_modified(self, is_directory, filepath) ==
    IF is_directory THEN self
    ELSE IF should_process(self, filepath) /\ filepath \notin self.processing_files
    THEN LET self1 == IF filepath \in DOMAIN self.file_timers
                      THEN cancel_timer(self, self.file_timers[filepath])
                      ELSE self
             self2 == start_timer(self1, filepath)
         IN [self2 EXCEPT !.file_timers = TimersSet(@, filepath, Len(self2.timers))]
    ELSE self

\* one statement of EDIFileHandler._process_file in the thread of timer t;
\* ready is what wait_for_file_ready returns
process_file_step(self, t, ready) ==
    LET filepath == self.timers[t].filepath
        pc == self.timers[t].pc
    IN IF pc = "started"
       THEN [self EXCEPT !.timers[t].pc = "line79"]
       ELSE IF pc = "line79"
       THEN [self EXCEPT !.timers[t].pc =
                IF filepath \in self.processing_files THEN "done" ELSE "line83"]
       ELSE IF pc = "line83"
       THEN [self EXCEPT !.timers[t].pc = IF ready THEN "line87" ELSE "done"]
       ELSE IF pc = "line87"
       THEN [self EXCEPT !.processing_files = @ \cup {filepath},
                         !.timers[t].pc = "line90"]
       ELSE IF pc = "line90"
       THEN [self EXCEPT !.timers[t].pc = "line94"]
       ELSE IF pc = "line94"
       THEN [self EXCEPT !.processing_files = @ \ {filepath},
                         !.timers[t].pc = "line95"]
       ELSE IF pc = "line95"
       THEN [self EXCEPT !.timers[t].pc =
                IF filepath \in DOMAIN self.file_timers THEN "line96" ELSE "done"]
       ELSE IF pc = "line96"
       THEN IF filepath \in DOMAIN self.file_timers
            THEN [self EXCEPT !.file_timers = TimersDel(@, filepath),
                              !.timers[t].pc = "done"]
            ELSE [self EXCEPT !.timers[t].pc = "KeyError"]
       ELSE self

\* the paths of the events: an EDI file, and a file that is not one
EventPaths == {<<"a", ".", "E", "D", "I">>, <<"a", ".", "t", "m", "p">>}

\* the number of timers started
MaxTimers == 3

\* the observer thread delivers a creation event
OnCreated(is_directory, filepath) ==
    /\ Len(handler.timers) < MaxTimers
    /\ handler' = on_created(handler, is_directory, filepath)
    /\ UNCHANGED <<validator, transformer, op, arg, ret, exc, calls, locals>>

\* the observer thread delivers a modification event
OnModified(is_directory, filepath) ==
    /\ Len(handler.timers) < MaxTimers
    /\ handler' = on_modified(handler, is_directory, filepath)
    /\ UNCHANGED <<validator, transformer, op, arg, ret, exc, calls, locals>>

\* the thread of timer t executes its next statement
TimerStep(t, ready) ==
    /\ t <= Len(handler.timers)
    /\ handler.timers[t].pc \notin {"cancelled", "done", "KeyError"}
    /\ handler' = process_file_step(handler, t, ready)
    /\ UNCHANGED <<validator, transformer, op, arg, ret, exc, calls, locals>>

NextMonitor ==
    \/ \E is_directory \in BOOLEAN, filepath \in EventPaths :
          OnCreated(is_directory, filepath)
    \/ \E is_directory \in BOOLEAN, filepath \in EventPaths :
          OnModified(is_directory, filepath)
    \/ \E t \in 1..MaxTimers, ready \in BOOLEAN : TimerStep(t, ready)

SpecMonitor == Init /\ [][NextMonitor]_vars

-----------------------------------------------------------------------------
(* Properties.                                                             *)

\* content is empty or whitespace only
IsBlank(content) == content = <<>> \/ Strip(content) = <<>>

\* the last call returned a ValidationResult
ReturnedResult ==
    exc = NoException /\ op \in ResultOps \cup {"EDIValidator.validate"}

\* C1: every ValidationResult returned by validate or built from
\* ValidationResult(is_valid=True) by add_error and add_warning calls has
\* is_valid true exactly when its error list is empty; add_error leaves
\* is_valid false, add_warning leaves is_valid as it was.
ValidityIffNoErrors ==
    /\ ReturnedResult => (ret.is_valid <=> ret.errors = <<>>)
    /\ op = "ValidationResult.add_error"
          => ~ret.is_valid /\ Len(ret.errors) = Len(arg.result.errors) + 1
    /\ op = "ValidationResult.add_warning"
          => /\ ret.is_valid = arg.result.is_valid
             /\ ret.errors = arg.result.errors
             /\ Len(ret.warnings) = Len(arg.result.warnings) + 1

\* a warning added to a result that already holds an error and a warning
WarningAfterError ==
    /\ op = "ValidationResult.add_warning"
    /\ Len(ret.errors) >= 1
    /\ Len(ret.warnings) >= 2
    /\ ~ret.is_valid

\* C2: validate on a well-formed interchange of either format (Scenario A,
\* Scenario D) returns a result with no errors and is_valid true.
WellFormedIsValid ==
    (op = "EDIValidator.validate" /\ arg.content \in {ScenarioA, ScenarioD})
        => exc = NoException /\ ret.errors = <<>> /\ ret.is_valid

\* C3: validate on the interchange whose 850 transaction has no BEG reports
\* exactly one error, with rule BEG_REQUIRED_850, and is_valid false;
\* extract_transaction_data on that transaction returns a mapping with a
\* data key and does not raise.
MissingBegIsTheOnlyError ==
    /\ (op = "EDIValidator.validate" /\ arg.content = ScenarioB)
          => /\ exc = NoException
             /\ Len(ret.errors) = 1
             /\ ret.errors[1].rule = "BEG_REQUIRED_850"
             /\ ~ret.is_valid
    /\ (op = "X12Parser.extract_transaction_data" /\ arg.content = ScenarioB)
          => exc = NoException /\ "data" \in DOMAIN ret

\* C4: validate on empty or whitespace-only content, whatever the edi_type
\* argument, returns without raising a result with is_valid false and an
\* error whose message tells of empty content.
EmptyContentIsAnError ==
    (op = "EDIValidator.validate" /\ IsBlank(arg.content))
        => /\ exc = NoException
           /\ ~ret.is_valid
           /\ Len(ret.errors) >= 1
           /\ \E i \in 1..Len(ret.errors) : ret.errors[i].message = "Empty EDI content"

\* validate("  \n", "X12") has returned its result
BlankContentValidatedAsX12 ==
    /\ op = "EDIValidator.validate"
    /\ arg.content = Blank
    /\ arg.edi_type = "X12"
    /\ exc = NoException
    /\ ~ret.is_valid

\* the stripped content starts with none of ISA, UNB, UNA
UnknownFormat(content) ==
    /\ ~IsBlank(content)
    /\ ~StartsWith(Strip(content), ISA)
    /\ ~StartsWith(Strip(content), UNB)
    /\ ~StartsWith(Strip(content), UNA)

\* C5: validate without an edi_type on non-empty content that starts with
\* none of ISA, UNB, UNA returns a result with is_valid false and at least
\* one error, and calls no parser (the parsers are left as they were).
UnknownFormatIsAnErrorWithoutParsing ==
    (op = "EDIValidator.validate" /\ arg.edi_type = "None" /\ UnknownFormat(arg.content))
        => /\ exc = NoException
           /\ ~ret.is_valid
           /\ Len(ret.errors) >= 1
           /\ calls = <<>>
           /\ validator = arg.before

\* validate("not EDI") has returned its result
NotEdiValidated ==
    /\ op = "EDIValidator.validate"
    /\ arg.content = NotEdi
    /\ arg.edi_type = "None"
    /\ exc = NoException
    /\ Len(ret.errors) = 1

\* C6: X12Parser.parse and EdifactParser.parse raise exactly when the whole
\* input is empty or whitespace-only.
ParseRaisesOnlyOnBlank ==
    op \in {"X12Parser.parse", "EdifactParser.parse"}
        => (exc # NoException <=> IsBlank(arg.content))

\* C7: detect_separators of both parsers never fails, and returns the
\* format defaults when the ISA header, or the UNA service string, is absent.
DetectNeverFailsAndDefaults ==
    /\ op = "X12Parser.detect_separators"
          => /\ exc = NoException
             /\ IsaSearch(Prefix(arg.content, IsaSearchWindow)) = -1
                   => ret = <<"*", "~">>
    /\ op = "EdifactParser.detect_separators"
          => /\ exc = NoException
             /\ UnaSearch(Prefix(arg.content, 20)) = -1
                   => ret = <<"+", ":", "'", "?">>

\* C8: what parse and validate return for a content does not depend on the
\* calls made before on the same instance: it is what a fresh instance returns.
ResultDependsOnContentOnly ==
    /\ op = "X12Parser.parse"
          => \E fresh \in {X12_parse(X12Parser_init, arg.content)} :
                exc = fresh.exc /\ ret = fresh.ret
    /\ op = "EdifactParser.parse"
          => \E fresh \in {EDIFACT_parse(EdifactParser_init, arg.content)} :
                exc = fresh.exc /\ ret = fresh.ret
    /\ op = "EDIValidator.validate"
          => \E fresh \in {validate(EDIValidator_init, arg.content, arg.edi_type)} :
                exc = fresh.exc /\ ret = fresh.ret

\* C9: parsing Scenario A (standard delimiters; ISA, GS, ST*850, BEG, N1,
\* PO1, SE, GE, IEA) yields one transaction of type 850, the sender and
\* receiver ids of ISA elements 6 and 8 trimmed, and extraction gives the
\* po_number of BEG element 3 and one line item with the product_id of PO1
\* element 7.
ScenarioAParses ==
    /\ (op = "X12Parser.parse" /\ arg.content = ScenarioA)
          => /\ exc = NoException
             /\ Len(ret.transactions) = 1
             /\ ret.transactions[1].transaction_type = T850
             /\ X12_get_sender_id(ret) = SENDERID
             /\ X12_get_receiver_id(ret) = RECEIVERID
    /\ (op = "X12Parser.extract_transaction_data" /\ arg.content = ScenarioA)
          => /\ "po_number" \in DOMAIN ret.data
             /\ ret.data.po_number = PONUMBER
             /\ Len(ret.data.line_items) = 1
             /\ ret.data.line_items[1].product_id = SKU1

\* C10: parsing Scenario D (UNA:+.? ' then UNB, UNH+1+ORDERS:D:96A:UN,
\* BGM+220+order+9, UNT, UNZ) yields one message of type ORDERS and the
\* sender and receiver ids of UNB elements 2 and 3; extraction gives the
\* order_number of BGM element 2.
ScenarioDParses ==
    (op = "EdifactParser.parse" /\ arg.content = ScenarioD)
        => /\ exc = NoException
           /\ Len(ret.messages) = 1
           /\ ret.messages[1].message_type = ORDERS
           /\ EDIFACT_get_sender_id(ret) = SENDERID
           /\ EDIFACT_get_receiver_id(ret) = RECEIVERID
           /\ EDIFACT_extract_message_data(ret.messages[1]).data.order_number = ORDERNO

\* the position is outside 1..len(elements) of the segment of the call
PositionOutOfRange ==
    ~(1 <= arg.position /\ arg.position <= Len(arg.segment.elements))

\* the component index is outside 0..len(element)-1 of the element addressed
ComponentOutOfRange ==
    /\ ~PositionOutOfRange
    /\ ~(0 <= arg.component
          /\ arg.component < Len(arg.segment.elements[arg.position]))

\* C11: get_element on an X12 or EDIFACT segment returns the supplied default
\* and does not raise for every element position and every component index
\* that is out of range, zero and negative values included.
GetElementDefaultsOutOfRange ==
    /\ (op = "X12Segment.get_element" /\ PositionOutOfRange)
          => exc = NoException /\ ret = arg.default
    /\ (op = "EdifactSegment.get_element"
          /\ (PositionOutOfRange \/ ComponentOutOfRange))
          => exc = NoException /\ ret = arg.default

\* the transaction of the call holds a segment named name
Holds(name) ==
    \E i \in 1..Len(arg.transaction.segments) : arg.transaction.segments[i].name = name

\* extract_transaction_data was called on a transaction built by the caller
ExtractedData ==
    op = "X12Parser.extract_transaction_data" /\ "content" \notin DOMAIN arg

\* C12 as stated: for every transaction of type 850, 855, 810 or 856
\* extract_transaction_data does not raise and its data mapping holds every
\* documented field (850: po_number, po_date, parties, line_items; 855:
\* po_number; 810: invoice_number, line_items), whichever segments are missing.
ExtractGivesEveryField ==
    ExtractedData
        => /\ exc = NoException
           /\ "data" \in DOMAIN ret
           /\ arg.transaction.transaction_type = T850
                 => {"po_number", "po_date", "parties", "line_items"} \subseteq DOMAIN ret.data
           /\ arg.transaction.transaction_type = T855
                 => "po_number" \in DOMAIN ret.data
           /\ arg.transaction.transaction_type = T810
                 => {"invoice_number", "line_items"} \subseteq DOMAIN ret.data

\* C12 amended: extract_transaction_data does not raise and returns a data
\* mapping; parties and line_items (850) and line_items (810) are always in
\* it, and the fields read from the header segment (850: po_number, po_date
\* from BEG; 855: po_number from BAK; 810: invoice_number from BIG) are in it
\* exactly when the transaction holds that segment.
ExtractGivesFieldsOfPresentSegments ==
    ExtractedData
        => /\ exc = NoException
           /\ "data" \in DOMAIN ret
           /\ arg.transaction.transaction_type = T850
                 => /\ {"parties", "line_items"} \subseteq DOMAIN ret.data
                    /\ "po_number" \in DOMAIN ret.data <=> Holds(BEG)
                    /\ "po_date" \in DOMAIN ret.data <=> Holds(BEG)
           /\ arg.transaction.transaction_type = T855
                 => ("po_number" \in DOMAIN ret.data <=> Holds(BAK))
           /\ arg.transaction.transaction_type = T810
                 => /\ "line_items" \in DOMAIN ret.data
                    /\ "invoice_number" \in DOMAIN ret.data <=> Holds(BIG)

\* data was extracted from an 850 transaction that has line items and no BEG
ExtractedWithoutHeader ==
    /\ ExtractedData
    /\ arg.transaction.transaction_type = T850
    /\ ~Holds(BEG)
    /\ Holds(PO1)
    /\ Len(ret.data.line_items) = 1
    /\ "po_number" \notin DOMAIN ret.data

\* C13: validate called twice on the same content with the same validator
\* instance returns identical error lists and identical warning lists (same
\* entries, same order).
ValidateTwiceAgrees ==
    [][(/\ op = "EDIValidator.validate"
        /\ op' = "EDIValidator.validate"
        /\ arg'.content = arg.content
        /\ arg'.edi_type = arg.edi_type)
           => /\ exc' = exc
              /\ ret'.errors = ret.errors
              /\ ret'.warnings = ret.warnings]_vars

\* validate ran on the pipe-delimited interchange with a validator whose
\* parser a call before had left with that interchange's separators
ValidatedAgain ==
    /\ op = "EDIValidator.validate"
    /\ arg.content = PipeA
    /\ arg.edi_type = "X12"
    /\ arg.before.x12_parser.element_separator = "|"
    /\ validator = arg.before
    /\ exc = NoException
    /\ Len(ret.warnings) >= 1

\* C14: for a valid X12 interchange with balanced ISA/IEA, GS/GE and ST/SE
\* (Scenario A), transform_x12_to_edifact returns an EDIFACT interchange
\* which EdifactParser parses into an envelope whose sender and receiver
\* identifiers are those of the source X12 envelope.
TransformKeepsIdentifiers ==
    (op = "EDITransformer.transform_x12_to_edifact" /\ arg.content = ScenarioA)
        => /\ exc = NoException
           /\ \E p \in {EDIFACT_parse(EdifactParser_init, ret)} :
                 /\ p.exc = NoException
                 /\ EDIFACT_get_sender_id(p.ret) = SENDERID
                 /\ EDIFACT_get_receiver_id(p.ret) = RECEIVERID

\* C15: an EDIProcessor built from a configuration with only sterling
\* directories and file-based metrics is built without an exception, and its
\* process_file on a well-formed X12 file (Scenario A) with validate=True and
\* deliver=False returns a result with success True and edi_type "X12".
ProcessorProcessesX12File ==
    (op = "EDIProcessor" /\ arg.config = TestConfig)
        => /\ exc = NoException
           /\ \E r \in {process_file(ret, ScenarioA, TRUE).ret} :
                 r.success /\ r.edi_type = "X12"

\* C16: should_retry returns False for every attempt greater than or equal
\* to max_retries and for every error classified as authentication or
\* validation, and True for an error classified as connection or server when
\* the attempt is below max_retries ("Connection timeout" is a connection
\* error, "Unauthorized" an authentication error).
ShouldRetryFollowsClassification ==
    op = "AutomatedErrorHandler.should_retry"
        => LET error_type == classify_error(arg.handler, arg.error)
               below == arg.attempt < arg.handler.max_retries
           IN /\ exc = NoException
              /\ ~below => ret = FALSE
              /\ error_type \in {"authentication", "validation"} => ret = FALSE
              /\ (error_type \in {"connection", "server"} /\ below) => ret = TRUE
              /\ (arg.error = ConnectionTimeout /\ below) => ret = TRUE
              /\ arg.error \in {Unauthorized, InvalidFormat} => ret = FALSE

\* a connection error was refused a retry at attempt max_retries
RetryRefusedAtMaxRetries ==
    /\ op = "AutomatedErrorHandler.should_retry"
    /\ arg.error = ConnectionTimeout
    /\ arg.handler.max_retries = 3
    /\ arg.attempt = 3
    /\ ret = FALSE

-----------------------------------------------------------------------------
(* Streams of segments: what parse makes of the segments as they come.     *)

\* a stream has been parsed
Streamed == op = "X12Parser.parse" /\ "stream" \in DOMAIN arg

\* the segments of the stream parsed, as the tokenizer reads them
StreamOf(a) ==
    [i \in 1..Len(a.stream) |-> X12_tokenize(<<a.stream[i]>>, "*", 1)[1]]

\* the positions of the SE met while a transaction was open: the nearest ST
\* or SE before it is an ST
Closings(segs) ==
    {j \in 1..Len(segs) :
        /\ segs[j].name = SE
        /\ \E i \in 1..(j - 1) :
              /\ segs[i].name = ST
              /\ \A k \in (i + 1)..(j - 1) : segs[k].name \notin {ST, SE}}

\* the position of the ST that opened the transaction closed at j
Opening(segs, j) ==
    CHOOSE i \in 1..(j - 1) :
        /\ segs[i].name = ST
        /\ \A k \in (i + 1)..(j - 1) : segs[k].name # ST

\* the segments strictly between the boundaries of the k-th transaction
Between(segs, k) ==
    LET j == Kth(Closings(segs), k)
    IN SubSeq(segs, Opening(segs, j) + 1, j - 1)

IsGroupBoundary(seg) == seg.name \in {GS, GE}

\* C17 as stated: each transaction's segment list is exactly the segments
\* strictly between its opening ST and its closing SE, in order.
TransactionHoldsSegmentsBetween ==
    Streamed =>
        /\ exc = NoException
        /\ Len(ret.transactions) = Cardinality(Closings(StreamOf(arg)))
        /\ \A k \in 1..Len(ret.transactions) :
              ret.transactions[k].segments = Between(StreamOf(arg), k)

\* C17: each transaction's segment list is exactly the segments other than
\* GS and GE strictly between its opening ST and its closing SE, in order,
\* and holds neither boundary segment.
TransactionHoldsSegmentsBetweenButGroups ==
    Streamed =>
        /\ exc = NoException
        /\ Len(ret.transactions) = Cardinality(Closings(StreamOf(arg)))
        /\ \A k \in 1..Len(ret.transactions) :
              /\ ret.transactions[k].segments =
                    SelectSeq(Between(StreamOf(arg), k),
                              LAMBDA seg : ~IsGroupBoundary(seg))
              /\ \A n \in 1..Len(ret.transactions[k].segments) :
                    ret.transactions[k].segments[n].name \notin {ST, SE}

\* a transaction was closed with a GS and a body segment between its
\* boundaries
ClosedAroundGroupBoundary ==
    /\ Streamed
    /\ Len(arg.stream) = 4
    /\ StreamOf(arg)[1].name = ST
    /\ StreamOf(arg)[2].name = GS
    /\ StreamOf(arg)[3].name = BEG
    /\ StreamOf(arg)[4].name = SE
    /\ Len(ret.transactions) = 1
    /\ Len(ret.transactions[1].segments) = 1

\* the builder's current_group and current_transaction, and the envelope's
\* lists, before the segment that the next call appends
BuilderBefore ==
    IF Streamed THEN locals
    ELSE [current_group |-> None, current_transaction |-> None]

TransactionsBefore == IF Streamed THEN ret.transactions ELSE <<>>

GroupsBefore == IF Streamed THEN ret.functional_groups ELSE <<>>

\* the segment a call appended to the stream
Appended(a) == StreamOf(a)[Len(a.stream)]

\* every member of the sequence inner is a member of the sequence outer
Within(inner, outer) ==
    \A n \in 1..Len(inner) : \E k \in 1..Len(outer) : outer[k] = inner[n]

\* C18: parse raises nothing on a stream with unterminated transactions; the
\* transactions of the envelope are those closed by an SE met while a
\* transaction was open, one for each such SE, each with the type and the
\* control number of the ST that opened it, so a transaction left open at
\* the next ST or at the end of input is neither in the envelope's list nor
\* in a functional group.
UnterminatedTransactionIsDropped ==
    [][Streamed' =>
        /\ exc' = NoException
        /\ Len(ret'.transactions) =
             IF Appended(arg').name = SE /\ BuilderBefore.current_transaction # None
             THEN Len(TransactionsBefore) + 1
             ELSE Len(TransactionsBefore)
        /\ Len(ret'.transactions) = Cardinality(Closings(StreamOf(arg')))
        /\ \A k \in 1..Len(ret'.transactions) :
              LET st == StreamOf(arg')[Opening(StreamOf(arg'),
                                               Kth(Closings(StreamOf(arg')), k))]
              IN /\ ret'.transactions[k].transaction_type = st.elements[1]
                 /\ ret'.transactions[k].control_number = st.elements[2]
        /\ \A g \in 1..Len(ret'.functional_groups) :
              Within(ret'.functional_groups[g].transactions, ret'.transactions)
        /\ locals'.current_group # None
              => Within(locals'.current_group.transactions, ret'.transactions)
    ]_vars

\* an 850 left open with a BEG in it was dropped at the ST of an 855, which
\* an SE then closed inside a group
UnterminatedDropped ==
    /\ Streamed
    /\ Len(arg.stream) = 4
    /\ StreamOf(arg)[1].name = GS
    /\ StreamOf(arg)[2].name = ST /\ StreamOf(arg)[2].elements[1] = T850
    /\ StreamOf(arg)[3].name = ST /\ StreamOf(arg)[3].elements[1] = T855
    /\ StreamOf(arg)[4].name = SE
    /\ Len(ret.transactions) = 1
    /\ ret.transactions[1].transaction_type = T855
    /\ locals.current_group.transactions = ret.transactions

\* C19: every transaction in a functional group's list, closed or still
\* open, is in the envelope's flat list; an SE met while a transaction and a
\* group are open appends the transaction to that group's list, and an SE
\* leaves the open group open and the closed groups as they were.
GroupTransactionsAreInTheFlatList ==
    [][Streamed' =>
        /\ exc' = NoException
        /\ \A g \in 1..Len(ret'.functional_groups) :
              Within(ret'.functional_groups[g].transactions, ret'.transactions)
        /\ locals'.current_group # None
              => Within(locals'.current_group.transactions, ret'.transactions)
        /\ Appended(arg').name = SE
              => /\ ret'.functional_groups = GroupsBefore
                 /\ locals'.current_group =
                      IF /\ BuilderBefore.current_group # None
                         /\ BuilderBefore.current_transaction # None
                      THEN [BuilderBefore.current_group EXCEPT
                              !.transactions =
                                  Append(@, BuilderBefore.current_transaction)]
                      ELSE BuilderBefore.current_group
                 /\ BuilderBefore.current_transaction # None
                      => ret'.transactions =
                           Append(TransactionsBefore,
                                  BuilderBefore.current_transaction)
    ]_vars

\* a transaction was closed inside a group that a GE then closed
ClosedInsideGroup ==
    /\ Streamed
    /\ Len(arg.stream) = 4
    /\ StreamOf(arg)[1].name = GS
    /\ StreamOf(arg)[2].name = ST
    /\ StreamOf(arg)[3].name = SE
    /\ StreamOf(arg)[4].name = GE
    /\ locals.current_group = None
    /\ Len(ret.functional_groups) = 1
    /\ Len(ret.transactions) = 1
    /\ ret.functional_groups[1].transactions = ret.transactions

\* C20 as stated: an ISA or IEA met at any position is stored in its slot
\* of the envelope and changes nothing else: the open group, the open
\* transaction with its segment list, and the lists of the envelope stay
\* as they were.
EnvelopeSegmentChangesNothingElse ==
    [][(Streamed' /\ Appended(arg').name \in {ISA, IEA}) =>
        /\ exc' = NoException
        /\ Appended(arg').name = ISA => ret'.isa_segment = Appended(arg')
        /\ Appended(arg').name = IEA => ret'.iea_segment = Appended(arg')
        /\ locals'.current_group = BuilderBefore.current_group
        /\ locals'.current_transaction = BuilderBefore.current_transaction
        /\ ret'.transactions = TransactionsBefore
        /\ ret'.functional_groups = GroupsBefore
    ]_vars

-----------------------------------------------------------------------------
(* Validation of streams of segments.                                      *)

\* a stream has been validated
StreamValidated == op = "EDIValidator.validate" /\ "stream" \in DOMAIN arg

\* the positions of the GE met while no functional group was open: the
\* nearest GS or GE before it, if any, is a GE
Dangling(segs) ==
    {j \in 1..Len(segs) :
        /\ segs[j].name = GE
        /\ ~\E i \in 1..(j - 1) :
              /\ segs[i].name = GS
              /\ \A k \in (i + 1)..(j - 1) : segs[k].name \notin {GS, GE}}

\* the stream without the segments at the given positions
Without(stream, positions) ==
    LET kept == (1..Len(stream)) \ positions
    IN [n \in 1..Cardinality(kept) |-> stream[Kth(kept, n)]]

\* C21: validating an interchange that holds a GE with no open group raises
\* nothing and records a finding for the dangling trailer: the result is not
\* the result of validating the same interchange without that GE.
DanglingTrailerIsFlagged ==
    (/\ StreamValidated
     /\ Dangling(StreamOf(arg)) # {}
     /\ Without(arg.stream, Dangling(StreamOf(arg))) # <<>>)
        => /\ exc = NoException
           /\ calls = <<"x12_parser.parse">>
           /\ ret # validate(arg.before,
                             Terminated(Without(arg.stream, Dangling(StreamOf(arg))), "~"),
                             "X12").ret

\* the transactions parse makes of the stream validated
StreamTransactions(a) == X12_parse(a.before.x12_parser, a.content).ret.transactions

\* the transactions whose closing SE declares a segment count other than
\* the number of segments captured for them
Miscounted(a) ==
    {k \in 1..Len(StreamTransactions(a)) :
        X12_get_element(StreamOf(a)[Kth(Closings(StreamOf(a)), k)], 1, <<>>)
            # PyStr(Len(StreamTransactions(a)[k].segments))}

\* the findings of a list that carry the given message
Carrying(findings, message) ==
    {n \in 1..Len(findings) : findings[n].message = message}

\* C22: validate adds one segment-count-mismatch warning, and no such
\* error, for each transaction whose SE declares a count other than the
\* number of segments captured for it.
SegmentCountMismatchIsAWarning ==
    StreamValidated =>
        /\ exc = NoException
        /\ Cardinality(Carrying(ret.warnings, "Segment count mismatch"))
             = Cardinality(Miscounted(arg))
        /\ Carrying(ret.errors, "Segment count mismatch") = {}

RECURSIVE Concat(_, _)
\* the concatenation of the sequences parts[i], parts[i+1], ...
Concat(parts, i) ==
    IF i > Len(parts) THEN <<>> ELSE parts[i] \o Concat(parts, i + 1)

\* the result of the checks made on the envelope alone, which end with the
\* warning "No transactions found"
StructuralFindings(a) ==
    validate_x12_envelope(
        [X12_parse(a.before.x12_parser, a.content).ret EXCEPT !.transactions = <<>>]).result

\* the result of the checks made on the k-th transaction alone
TransactionFindings(a, k) ==
    validate_x12_transaction(StreamTransactions(a)[k], ValidationResult_new).result

\* C23: for an interchange that parses and holds transactions, the errors
\* and the warnings of the result are those of the structural checks
\* followed by those of every transaction's checks, in interchange order,
\* whatever errors came before.
FindingsAccumulate ==
    (StreamValidated /\ StreamTransactions(arg) # <<>>) =>
        LET n == Len(StreamTransactions(arg))
            structural == StructuralFindings(arg)
        IN /\ exc = NoException
           /\ ret.errors =
                structural.errors
                \o Concat([k \in 1..n |-> TransactionFindings(arg, k).errors], 1)
           /\ ret.warnings =
                SubSeq(structural.warnings, 1, Len(structural.warnings) - 1)
                \o Concat([k \in 1..n |-> TransactionFindings(arg, k).warnings], 1)
           /\ ret.is_valid = (ret.errors = <<>>)

\* an interchange without ISA and with an 850 that lacks its BEG, both
\* errors, was validated up to the checks of the 855 that follows
ValidatedPastErrors ==
    /\ StreamValidated
    /\ Len(StreamTransactions(arg)) = 2
    /\ StreamTransactions(arg)[1].transaction_type = T850
    /\ StreamTransactions(arg)[2].transaction_type = T855
    /\ Carrying(ret.errors, "Missing ISA segment (interchange header)") # {}
    /\ Carrying(ret.errors, "850 transaction missing BEG segment") # {}
    /\ TransactionFindings(arg, 2).errors # <<>>
    /\ ret.errors[Len(ret.errors)]
         = TransactionFindings(arg, 2).errors[Len(TransactionFindings(arg, 2).errors)]

-----------------------------------------------------------------------------
(* Texts of any characters: what the tokenizers make of them.              *)

\* a text has been parsed and parse returned
TextParsed(name) == op = name /\ "text" \in DOMAIN arg /\ exc = NoException

\* C24: every segment the tokenizer of either parser produces has a
\* non-empty tag.
TagsAreNonEmpty ==
    /\ TextParsed("X12Parser.parse")
         => \A n \in 1..Len(locals.segments) : locals.segments[n].name # <<>>
    /\ TextParsed("EdifactParser.parse")
         => /\ ret.unb_segment # None => ret.unb_segment.tag # <<>>
            /\ ret.unz_segment # None => ret.unz_segment.tag # <<>>
            /\ \A m \in 1..Len(ret.messages) :
                  \A n \in 1..Len(ret.messages[m].segments) :
                     ret.messages[m].segments[n].tag # <<>>

\* the characters the release character "?" makes literal in X12
Specials == {"*", "~", "?"}

\* the start of the run of release characters that ends at i
ReleaseRun(t, i) ==
    CHOOSE a \in 1..i :
        /\ \A j \in a..i : t[j] = "?"
        /\ (a = 1 \/ t[a - 1] # "?")

\* the positions of the release characters that escape the character after
\* them: in a run of them, the first, the third, ...
Releasing(t) ==
    {i \in 1..(Len(t) - 1) :
        /\ t[i] = "?"
        /\ t[i + 1] \in Specials
        /\ (i - ReleaseRun(t, i)) % 2 = 0}

\* the positions in lo..hi of the separators sep that are not escaped
Breaks(t, lo, hi, sep) ==
    {i \in lo..hi : t[i] = sep /\ (i - 1) \notin Releasing(t)}

\* the intervals that the breaks cut lo..hi into, in order
Intervals(lo, hi, breaks) ==
    [k \in 1..(Cardinality(breaks) + 1) |->
        <<IF k = 1 THEN lo ELSE Kth(breaks, k - 1) + 1,
          IF k = Cardinality(breaks) + 1 THEN hi ELSE Kth(breaks, k) - 1>>]

\* the characters of an interval without the escaping release characters
Literal(t, interval) ==
    LET kept == (interval[1]..interval[2]) \ Releasing(t)
    IN [k \in 1..Cardinality(kept) |-> t[Kth(kept, k)]]

\* the segments of a text in which an escaped character is data
LiteralSegments(t) ==
    LET raw == SelectSeq(Intervals(1, Len(t), Breaks(t, 1, Len(t), "~")),
                         LAMBDA interval : interval[2] >= interval[1])
    IN [n \in 1..Len(raw) |->
          LET parts == Intervals(raw[n][1], raw[n][2],
                                 Breaks(t, raw[n][1], raw[n][2], "*"))
          IN [name |-> Literal(t, parts[1]),
              elements |-> [k \in 1..(Len(parts) - 1) |-> Literal(t, parts[k + 1])]]]

\* C25: a separator or release character preceded by the release character
\* is data of one element, without the release character, and starts no
\* element or segment; a text with such a character is parsed in both
\* formats.
EscapedCharacterIsData ==
    /\ TextParsed("X12Parser.parse") => locals.segments = LiteralSegments(arg.text)
    /\ (op = "EdifactParser.parse" /\ "text" \in DOMAIN arg
          /\ Releasing(arg.text) # {}) => exc = NoException

\* what the X12 tokenizer does instead: the release character is data and
\* every separator splits
EscapedCharacterSplits ==
    TextParsed("X12Parser.parse") =>
        locals.segments =
            LET raw == SelectSeq(Split(arg.text, "~"), LAMBDA piece : piece # <<>>)
            IN [n \in 1..Len(raw) |->
                  [name |-> Split(raw[n], "*")[1],
                   elements |-> Tail(Split(raw[n], "*"))]]

\* without release characters the literal reading is what parse produces
UnescapedTextIsLiteral ==
    (TextParsed("X12Parser.parse") /\ Releasing(arg.text) = {})
        => locals.segments = LiteralSegments(arg.text)

-----------------------------------------------------------------------------
(* The UNA service string advice.                                          *)

\* the content begins with UNA and six service characters
BeginsWithUna(content) == StartsWith(content, UNA) /\ Len(content) >= 9

\* C26: on a content that begins with UNA and the service characters
\* c1..c6, detect_separators returns element separator c5, component
\* separator c1, segment separator c6 and release character c4, and parse
\* returns with the parser holding those four values.
UnaGivesSeparators ==
    /\ (op = "EdifactParser.detect_separators" /\ BeginsWithUna(arg.content))
         => /\ exc = NoException
            /\ ret = <<arg.content[8], arg.content[4],
                       arg.content[9], arg.content[7]>>
    /\ (op = "EdifactParser.parse" /\ BeginsWithUna(arg.content))
         => /\ exc = NoException
            /\ validator.edifact_parser =
                 [element_separator |-> arg.content[8],
                  component_separator |-> arg.content[4],
                  segment_separator |-> arg.content[9],
                  release_character |-> arg.content[7]]

-----------------------------------------------------------------------------
(* apply_mapping.                                                          *)

\* apply_mapping has returned
Mapped == op = "EDITransformer.apply_mapping" /\ exc = NoException

RECURSIVE Contents_of(_, _, _)
\* a value with the dictionaries it refers to in place of the references;
\* a dictionary that holds itself is cut where it comes back
Contents_of(heap, value, within) ==
    IF ~IsDict(value) THEN value
    ELSE IF value.ref \in within THEN [again |-> value.ref]
    ELSE [items |-> [n \in 1..Len(heap[value.ref]) |->
                        [key |-> heap[value.ref][n].key,
                         value |-> Contents_of(heap, heap[value.ref][n].value,
                                               within \cup {value.ref})]]]

\* the value an entry asks for: the transform of the value read at its
\* source path in the source data, or of its default when that is absent
Asked(source, mapping) ==
    LET read == IF Truthy(mapping.source)
                THEN get_nested_value(source.heap, source.data, mapping.source.str)
                ELSE None
        value == IF read = None THEN mapping.default ELSE read
    IN IF Truthy(mapping.transform)
       THEN apply_transform(source.heap, value, mapping.transform)
       ELSE value

\* the value at the target path of the n-th entry is the value it asks for
Written(n) ==
    Contents_of(locals.heap,
                get_nested_value(locals.heap, ret, arg.mapping_config[n].key), {})
    = Contents_of(arg.source.heap, Asked(arg.source, arg.mapping_config[n].value), {})

\* C27 as stated: after apply_mapping returns, the value at each target
\* path of the result is the transform of the value read at the source path,
\* or of the default when that value is absent, also when one target path
\* is a dotted prefix of another.
MappingWritesEveryEntry ==
    Mapped => \A n \in 1..Len(arg.mapping_config) : Written(n)

\* no target path of the configuration is a dotted prefix of another
PrefixFree(mapping_config) ==
    \A m, n \in 1..Len(mapping_config) :
        m # n => ~StartsWith(mapping_config[n].key, mapping_config[m].key \o <<".">>)

\* C27: for a mapping configuration in which no target path is a dotted
\* prefix of another, apply_mapping returns and the value at each target
\* path of the result is the transform of the value read at the source path,
\* or of the default when that value is absent, intermediate containers
\* being created on demand.
PrefixFreeMappingWritesEveryEntry ==
    (op = "EDITransformer.apply_mapping" /\ PrefixFree(arg.mapping_config))
        => /\ exc = NoException
           /\ \A n \in 1..Len(arg.mapping_config) : Written(n)

\* a default was written under a container created on demand, next to a
\* trimmed value
MappedIntoNewContainer ==
    /\ Mapped
    /\ Len(arg.mapping_config) = 2
    /\ arg.mapping_config[1].key = <<"a", ".", "b">>
    /\ arg.mapping_config[1].value.source = Str(<<"c">>)
    /\ arg.mapping_config[2].key = <<"b">>
    /\ arg.mapping_config[2].value.transform = Str(<<"t", "r", "i", "m">>)
    /\ get_nested_value(arg.source.heap, arg.source.data, <<"b">>) = Str(<<" ", "y", " ">>)
    /\ get_nested_value(locals.heap, ret, <<"a", ".", "b">>) = Str(<<"d">>)
    /\ get_nested_value(locals.heap, ret, <<"b">>) = Str(<<"y">>)

\* C28: apply_mapping leaves the source dictionary and its nested
\* dictionaries with the contents they had before the call.
MappingLeavesSourceUnchanged ==
    op = "EDITransformer.apply_mapping" =>
        \A n \in 1..Len(arg.source.heap) : locals.heap[n] = arg.source.heap[n]

-----------------------------------------------------------------------------
(* The file handler and its timer threads.                                 *)

\* the timers whose thread is running the callback for filepath
Running(filepath) ==
    {t \in 1..Len(handler.timers) :
        handler.timers[t].filepath = filepath /\ handler.timers[t].pc = "line90"}

\* C29: the callback never runs for one file path in two timer threads at
\* the same time, and a path is in processing_files for as long as its
\* callback runs.
CallbackRunsOncePerPath ==
    \A filepath \in EventPaths :
        /\ Cardinality(Running(filepath)) <= 1
        /\ Running(filepath) # {} => filepath \in handler.processing_files

\* C30: when process_file returns for a file of a pickup directory, the file
\* is in the processed directory only if the result has success True and in
\* the error directory only if it has success False: nothing that runs after
\* the move (metrics, analytics) turns the result of a file moved to
\* processed into a failure.
MoveAgreesWithSuccess ==
    op = "EDIProcessor.process_file"
        => /\ locals.file = "processed" => ret.success
           /\ locals.file = "error" => ~ret.success

====
